---- MODULE Spec2Model ----
(***************************************************************************)
(* Upload content-analysis pipeline of bookbotv2:                          *)
(*   app/services/metadata.py   extract_upload_metadata and its helpers    *)
(*   app/services/auto_tags.py  generate_tags and its helpers              *)
(*   app/handlers/upload.py     handle_document: the rows it reads and     *)
(*                              writes in the tables users, files, books   *)
(*                                                                         *)
(* A Python str is modelled as a sequence of Unicode code points (natural  *)
(* numbers), so that the character classes of the source (whitespace, the  *)
(* CJK range 4E00-9FFF, ASCII letters, '#', quotes, zero-width characters) *)
(* are the ones the code tests.                                            *)
(***************************************************************************)
EXTENDS Integers, Sequences, FiniteSets, TLC

VARIABLES
    pc,          \* position of the driver: which call has been made
    arg,         \* normalizer driver: the string handed to normalize_tag
    res,         \* normalizer driver: results of successive applications
    title,       \* argument title of sample_text / generate_tags
    text,        \* argument text of sample_segments / sample_text / generate_tags
    budget,      \* argument budget of sample_text
    segment_len, \* argument segment_len of sample_segments
    segments,    \* argument segments of sample_segments / sample_text
    out,         \* value returned by the sampling call
    limit,       \* argument limit of generate_tags
    hash_seed,   \* the interpreter's str hash seed (drawn at each process start)
    runs,        \* the generate_tags calls made so far: their locals and result,
                 \* and the hash seed of the process that made the call
    name_counter, \* ranking driver: the items of name_counter with their
                 \* name_mask (the set of its bits), in insertion order
    written,     \* number of pieces the writer has appended (to text, to file_bytes)
    file_name,   \* argument file_name of extract_upload_metadata
    file_ext,    \* argument file_ext of extract_upload_metadata
    file_bytes,  \* argument file_bytes of extract_upload_metadata (0..255 each)
    metas,       \* the extract_upload_metadata calls made so far: locals and result
    database,    \* upload handler: the committed rows of users, files and books
    sessions     \* upload handler: the handle_document runs started so far,
                 \* each with its position, its locals and its open transaction

normVars == <<arg, res>>

sampleVars == <<budget, segment_len, segments, out>>

tagVars == <<limit, hash_seed, runs, name_counter>>

metaVars == <<file_name, file_ext, file_bytes, metas>>

uploadVars == <<database, sessions>>

vars ==
    <<pc, written, normVars, title, text, sampleVars, tagVars, metaVars,
      uploadVars>>

NormIdle == arg = <<>> /\ res = <<>>

TagIdle == limit = 0 /\ hash_seed = 0 /\ runs = <<>> /\ name_counter = <<>>

\* no row in any table, no run of the upload handler
UploadIdle ==
    /\ database = [users |-> <<>>, files |-> {}, books |-> <<>>]
    /\ sessions = <<>>

MetaIdle ==
    /\ file_name = <<>>
    /\ file_ext = <<>>
    /\ file_bytes = <<>>
    /\ metas = <<>>

SampleIdle ==
    /\ budget = 0
    /\ segment_len = 0
    /\ segments = 0
    /\ out = <<>>

-----------------------------------------------------------------------------
(* Characters                                                              *)

HASH == 35
SPACE == 32
TAB == 9
NL == 10
CR == 13
DQUOTE == 34
SQUOTE == 39
LDQUOTE == 8220
RDQUOTE == 8221
LSQUOTE == 8216
RSQUOTE == 8217
ZWSP == 8203
BOM == 65279
IDEOSPACE == 12288
CJK_LO == 19968
CJK_HI == 40959

\* str.isspace / str.strip() / regex \s of Python 3 (Unicode White_Space plus 1C-1F)
PyWhitespace ==
    {9, 10, 11, 12, 13, 28, 29, 30, 31, 32, 133, 160, 5760}
        \cup (8192..8202) \cup {8232, 8233, 8239, 8287, 12288}

IsSpace(c) == c \in PyWhitespace

IsCJK(c) == CJK_LO <= c /\ c <= CJK_HI

IsAsciiUpper(c) == 65 <= c /\ c <= 90

IsAsciiLower(c) == 97 <= c /\ c <= 122

IsAsciiLetter(c) == IsAsciiUpper(c) \/ IsAsciiLower(c)

\* str.isdigit on the characters the model draws: ASCII and full-width digits
IsDigit(c) == (48 <= c /\ c <= 57) \/ (65296 <= c /\ c <= 65305)

-----------------------------------------------------------------------------
(* Python str primitives                                                   *)

\* the indices 1..n in order (range(n), 1-based)
Indices(n) == [i \in 1..n |-> i]

\* Body on the value of e; e is computed once, before Body is
With(e, Body(_)) == CHOOSE r \in {Body(v) : v \in {e}} : TRUE

SetMin(S) == CHOOSE x \in S : \A y \in S : x <= y

SetMax(S) == CHOOSE x \in S : \A y \in S : y <= x

\* s[a:b] with 0 <= a, Python slice semantics (0-based, end exclusive, clipped)
Slice(s, a, b) ==
    LET hi == IF b > Len(s) THEN Len(s) ELSE b
    IN  IF a >= hi THEN <<>> ELSE SubSeq(s, a + 1, hi)

\* s[:k]
Take(s, k) == Slice(s, 0, k)

\* s.strip()
Strip(s) ==
    LET keep == {i \in 1..Len(s) : ~IsSpace(s[i])}
    IN  IF keep = {} THEN <<>> ELSE SubSeq(s, SetMin(keep), SetMax(keep))

\* s.lstrip(chars)
LStrip(s, chars) ==
    LET keep == {i \in 1..Len(s) : s[i] \notin chars}
    IN  IF keep = {} THEN <<>> ELSE SubSeq(s, SetMin(keep), Len(s))

\* s with every character of chars deleted (str.replace(c, ""), re.sub("[..]", ""))
Delete(s, chars) == SelectSeq(s, LAMBDA c : c \notin chars)

\* re.sub(r"\s+", "", s)
DeleteSpace(s) == SelectSeq(s, LAMBDA c : ~IsSpace(c))

\* needle in hay  (substring test)
Contains(hay, needle) ==
    \E i \in 0..(Len(hay) - Len(needle)) :
        \A k \in 1..Len(needle) : hay[i + k] = needle[k]

\* x in list
InSeq(x, list) == \E i \in 1..Len(list) : list[i] = x

\* a deduplication that keeps the last occurrence of each element
DedupeKeepLast(list) ==
    LET idx == SelectSeq([i \in 1..Len(list) |-> i],
                   LAMBDA i : \A j \in (i + 1)..Len(list) : list[j] # list[i])
    IN  [k \in 1..Len(idx) |-> list[idx[k]]]

\* list(dict.fromkeys(list)): first occurrence of each element, in order
Dedupe(list) ==
    LET first == SelectSeq(Indices(Len(list)),
                     LAMBDA i : \A j \in 1..(i - 1) : list[j] # list[i])
    IN  [k \in 1..Len(first) |-> list[first[k]]]

-----------------------------------------------------------------------------
(* app/services/auto_tags.py: _normalize_tag                               *)

TAG_CAP == 20

AutoQuotes == {DQUOTE, SQUOTE, LDQUOTE, RDQUOTE, LSQUOTE, RSQUOTE}

auto_normalize_tag(t) ==
    Take(Delete(DeleteSpace(LStrip(Strip(t), {HASH})), AutoQuotes), TAG_CAP)

-----------------------------------------------------------------------------
(* app/services/metadata.py: _clean_value, _normalize_tag                  *)

_clean_value(v) == Strip(Delete(Strip(v), {ZWSP, BOM}))

meta_normalize_tag(v) == DeleteSpace(Strip(LStrip(_clean_value(v), {HASH})))

-----------------------------------------------------------------------------
(* app/services/auto_tags.py: sample_segments, sample_text                 *)

MIN_SEG_LEN == 10000

IntMax(a, b) == IF a >= b THEN a ELSE b

IntMin(a, b) == IF a <= b THEN a ELSE b

\* sample_positions spaced over segments steps, so that the last offset
\* stays short of n - segment_len
sample_positions_open(n, seglen, nsegs) ==
    IF nsegs <= 1 THEN <<0>>
    ELSE [k \in 1..nsegs |->
            IntMax(0, IntMin(n - seglen, ((n - seglen) * (k - 1)) \div nsegs))]

\* the start offsets before deduplication, for n = len(text) > segment_len.
\* int((n - segment_len) * (i / (segments - 1))) is the floor of the exact
\* quotient: the float product is exact for segments - 1 in {1, 2, 4} and was
\* compared with the integer quotient for every other value the drivers draw.
sample_positions(n, seglen, nsegs) ==
    IF nsegs <= 1 THEN <<0>>
    ELSE [k \in 1..nsegs |->
            IntMax(0, IntMin(n - seglen, ((n - seglen) * (k - 1)) \div (nsegs - 1)))]

\* mutant: a text that fits one segment is treated like the empty text
sample_segments_short_dropped(txt, seglen, nsegs) ==
    IF seglen <= 0 \/ Len(txt) <= seglen THEN <<>>
    ELSE LET pos == Dedupe(sample_positions(Len(txt), seglen, nsegs))
         IN  [k \in 1..Len(pos) |-> Slice(txt, pos[k], pos[k] + seglen)]

sample_segments(txt, seglen, nsegs) ==
    IF seglen <= 0 \/ txt = <<>> THEN <<>>
    ELSE IF Len(txt) <= seglen THEN <<txt>>
    ELSE LET pos == Dedupe(sample_positions(Len(txt), seglen, nsegs))
         IN  [k \in 1..Len(pos) |-> Slice(txt, pos[k], pos[k] + seglen)]

\* "\n".join(list)
JoinNL(list) ==
    LET F[k \in 0..Len(list)] ==
            IF k = 0 THEN <<>>
            ELSE IF k = 1 THEN list[1]
            ELSE F[k - 1] \o <<NL>> \o list[k]
    IN  F[Len(list)]

\* mutant: the segment length is the whole available budget, not its share
sample_text_undivided(ttl, txt, bud, nsegs) ==
    With(Strip(ttl), LAMBDA t :
    LET overhead == IF t # <<>> THEN Len(t) + 1 ELSE 0
        available == IntMax(0, bud - overhead)
        seg_len == IntMax(MIN_SEG_LEN, available)
    IN  IF bud <= 0 THEN t
        ELSE IF txt = <<>> THEN t
        ELSE IF Len(txt) <= available
             THEN (IF t # <<>> THEN t \o <<NL>> \o txt ELSE txt)
        ELSE With(sample_segments(txt, seg_len, nsegs), LAMBDA segs :
             IF t # <<>> THEN t \o <<NL>> \o JoinNL(segs) ELSE JoinNL(segs)))

sample_text(ttl, txt, bud, nsegs) ==
    With(Strip(ttl), LAMBDA t :
    LET overhead == IF t # <<>> THEN Len(t) + 1 ELSE 0
        available == IntMax(0, bud - overhead)
        seg_len == IntMax(MIN_SEG_LEN, available \div IntMax(1, nsegs))
    IN  IF bud <= 0 THEN t
        ELSE IF txt = <<>> THEN t
        ELSE IF Len(txt) <= available
             THEN (IF t # <<>> THEN t \o <<NL>> \o txt ELSE txt)
        ELSE With(sample_segments(txt, seg_len, nsegs), LAMBDA segs :
             IF t # <<>> THEN t \o <<NL>> \o JoinNL(segs) ELSE JoinNL(segs)))

-----------------------------------------------------------------------------
(* app/services/auto_tags.py: tokenizers                                   *)

\* pattern.findall / pattern.finditer for a pattern [class]{lo,hi}: the
\* matches left to right, greedy and non-overlapping, with 0-based start.
\* Inside a maximal run of class characters the scan takes hi characters at
\* a time from the start of the run, then what is left of the run if that
\* is lo characters or more.
FindRuns(s, InClass(_), lo, hi) ==
    LET n == Len(s)
        starts == SelectSeq(Indices(n),
                      LAMBDA i : InClass(s[i]) /\ (i = 1 \/ ~InClass(s[i - 1])))
        ends == SelectSeq(Indices(n),
                    LAMBDA i : InClass(s[i]) /\ (i = n \/ ~InClass(s[i + 1])))
        \* <<first index, length>> of the matches inside the k-th run
        RunMatches(k) ==
            LET L == ends[k] - starts[k] + 1
            IN  {<<starts[k] + q * hi, IntMin(hi, L - q * hi)>> :
                   q \in {p \in 0..(L \div hi) : IntMin(hi, L - p * hi) >= lo}}
        found == UNION {RunMatches(k) : k \in 1..Len(starts)}
        firsts == {m[1] : m \in found}
        at == SelectSeq(Indices(n), LAMBDA i : i \in firsts)
        LenAt(i) == (CHOOSE m \in found : m[1] = i)[2]
    IN  [j \in 1..Len(at) |->
            [start |-> at[j] - 1,
             tok |-> SubSeq(s, at[j], at[j] + LenAt(at[j]) - 1)]]

MatchTokens(ms) == [k \in 1..Len(ms) |-> ms[k].tok]

\* str.lower() of a run of ASCII letters
Lower(s) == [i \in 1..Len(s) |-> IF IsAsciiUpper(s[i]) THEN s[i] + 32 ELSE s[i]]

\* _RE_CJK = [一-鿿]{2,6}
tokenize_cjk(s) == MatchTokens(FindRuns(s, IsCJK, 2, 6))

\* _RE_CJK_1 = [一-鿿]{1,4}, with the match offsets (finditer)
finditer_cjk_1(s) == FindRuns(s, IsCJK, 1, 4)

\* _RE_EN = [A-Za-z]{4,20}, lower-cased
tokenize_en(s) ==
    LET ms == FindRuns(s, IsAsciiLetter, 4, 20)
    IN  [k \in 1..Len(ms) |-> Lower(ms[k].tok)]

-----------------------------------------------------------------------------
(* app/services/auto_tags.py: rule tables                                  *)

\* _STOPWORDS_CJK (auto_tags.py 10-130), as code points

STOPWORDS_CJK == {
    <<25105, 20204>>, <<20320, 20204>>, <<20182, 20204>>, <<22905, 20204>>,   \* 我们 你们 他们 她们
    <<23427, 20204>>, <<33258, 24049>>, <<36825, 20010>>, <<37027, 20010>>,   \* 它们 自己 这个 那个
    <<36825, 20123>>, <<37027, 20123>>, <<20160, 20040>>, <<24590, 20040>>,   \* 这些 那些 什么 怎么
    <<20026, 20160, 20040>>, <<19981, 26159>>, <<25152, 20197>>, <<22240, 20026>>,   \* 为什么 不是 所以 因为
    <<20294, 26159>>, <<28982, 21518>>, <<22914, 26524>>, <<36825, 26679>>,   \* 但是 然后 如果 这样
    <<37027, 26679>>, <<36824, 26377>>, <<24050, 32463>>, <<21487, 20197>>,   \* 那样 还有 已经 可以
    <<19981, 20250>>, <<19981, 35201>>, <<27809, 26377>>, <<26102, 20505>>,   \* 不会 不要 没有 时候
    <<29616, 22312>>, <<21018, 25165>>, <<19968, 19979>>, <<19968, 20010>>,   \* 现在 刚才 一下 一个
    <<20004, 20010>>, <<19977, 20010>>, <<19968, 20123>>, <<36825, 37324>>,   \* 两个 三个 一些 这里
    <<37027, 37324>>, <<22914, 20309>>, <<32780, 19988>>, <<32780, 26159>>,   \* 那里 如何 而且 而是
    <<20110, 26159>>, <<32780, 21518>>, <<20043, 21518>>, <<20043, 21069>>,   \* 于是 而后 之后 之前
    <<20043, 20013>>, <<20043, 20869>>, <<20043, 19978>>, <<20043, 19979>>,   \* 之中 之内 之上 之下
    <<19968, 31181>>, <<19968, 26679>>, <<19968, 33324>>, <<19968, 30452>>,   \* 一种 一样 一般 一直
    <<36824, 26159>>, <<21482, 26159>>, <<20854, 23454>>, <<32456, 20110>>,   \* 还是 只是 其实 终于
    <<21516, 26102>>, <<19981, 36807>>, <<24403, 28982>>, <<27605, 31455>>,   \* 同时 不过 当然 毕竟
    <<20174, 32780>>, <<31532, 31456>>, <<31532, 19968, 31456>>, <<31532, 20108, 31456>>,   \* 从而 第章 第一章 第二章
    <<31532, 19977, 31456>>, <<31532, 22235, 31456>>, <<31532, 20116, 31456>>, <<31532, 20845, 31456>>,   \* 第三章 第四章 第五章 第六章
    <<31532, 19971, 31456>>, <<31532, 20843, 31456>>, <<31532, 20061, 31456>>, <<31532, 21313, 31456>>,   \* 第七章 第八章 第九章 第十章
    <<27491, 25991>>, <<30446, 24405>>, <<20316, 32773>>, <<20070, 21517>>,   \* 正文 目录 作者 书名
    <<31616, 20171>>, <<26631, 31614>>, <<20998, 31867>>, <<20027, 35282>>,   \* 简介 标签 分类 主角
    <<20154, 29289>>, <<35282, 33394>>, <<20851, 38190, 23383>>, <<20851, 38190, 35789>>,   \* 人物 角色 关键字 关键词
    <<23567, 35828>>, <<31456, 33410>>, <<26356, 26032>>, <<21457, 24067>>,   \* 小说 章节 更新 发布
    <<38405, 35835>>, <<23436, 32467>>, <<24320, 22987>>, <<32467, 26463>>,   \* 阅读 完结 开始 结束
    <<35828, 36947>>, <<38382, 36947>>, <<31505, 36947>>, <<30475, 30528>>,   \* 说道 问道 笑道 看着
    <<30475, 20102>>, <<30475, 35265>>, <<24863, 35273>>, <<31361, 28982>>,   \* 看了 看见 感觉 突然
    <<32487, 32493>>, <<21457, 29616>>, <<30475, 21040>>, <<30693, 36947>>,   \* 继续 发现 看到 知道
    <<21548, 21040>>, <<30475, 21521>>, <<26080, 20851>>, <<20869, 23481>>   \* 听到 看向 无关 内容
}

\* _GENRE_RULES (auto_tags.py 133-148): (label, keywords), in table order
GENRE_RULES == <<
    \* 玄幻: 玄幻 异界 斗气 武魂 魂环 神域 圣域 神兽
    [tag |-> <<29572, 24187>>,
     keys |-> <<<<29572, 24187>>, <<24322, 30028>>, <<26007, 27668>>, <<27494, 39746>>, <<39746, 29615>>, <<31070, 22495>>, <<22307, 22495>>, <<31070, 20861>>>>],
    \* 奇幻: 奇幻 魔法 法师 巫师 龙族 精灵 魔王 魔兽
    [tag |-> <<22855, 24187>>,
     keys |-> <<<<22855, 24187>>, <<39764, 27861>>, <<27861, 24072>>, <<24043, 24072>>, <<40857, 26063>>, <<31934, 28789>>, <<39764, 29579>>, <<39764, 20861>>>>],
    \* 仙侠: 仙侠 修仙 修真 金丹 元婴 飞升 渡劫 灵根 丹药
    [tag |-> <<20185, 20384>>,
     keys |-> <<<<20185, 20384>>, <<20462, 20185>>, <<20462, 30495>>, <<37329, 20025>>, <<20803, 23156>>, <<39134, 21319>>, <<28193, 21163>>, <<28789, 26681>>, <<20025, 33647>>>>],
    \* 武侠: 武侠 江湖 门派 掌门 剑客 武林 内力 轻功
    [tag |-> <<27494, 20384>>,
     keys |-> <<<<27494, 20384>>, <<27743, 28246>>, <<38376, 27966>>, <<25484, 38376>>, <<21073, 23458>>, <<27494, 26519>>, <<20869, 21147>>, <<36731, 21151>>>>],
    \* 都市: 都市 商业 职场 总裁 白领 豪门 地产 公司
    [tag |-> <<37117, 24066>>,
     keys |-> <<<<37117, 24066>>, <<21830, 19994>>, <<32844, 22330>>, <<24635, 35009>>, <<30333, 39046>>, <<35946, 38376>>, <<22320, 20135>>, <<20844, 21496>>>>],
    \* 言情: 言情 甜宠 虐恋 先婚后爱 追妻 恋爱 相亲 告白
    [tag |-> <<35328, 24773>>,
     keys |-> <<<<35328, 24773>>, <<29980, 23456>>, <<34384, 24651>>, <<20808, 23130, 21518, 29233>>, <<36861, 22971>>, <<24651, 29233>>, <<30456, 20146>>, <<21578, 30333>>>>],
    \* 悬疑: 悬疑 推理 案件 凶手 密室 侦探 线索 尸体
    [tag |-> <<24748, 30097>>,
     keys |-> <<<<24748, 30097>>, <<25512, 29702>>, <<26696, 20214>>, <<20982, 25163>>, <<23494, 23460>>, <<20390, 25506>>, <<32447, 32034>>, <<23608, 20307>>>>],
    \* 科幻: 科幻 星际 机甲 外星 宇宙 飞船 虫族 量子
    [tag |-> <<31185, 24187>>,
     keys |-> <<<<31185, 24187>>, <<26143, 38469>>, <<26426, 30002>>, <<22806, 26143>>, <<23431, 23449>>, <<39134, 33337>>, <<34411, 26063>>, <<37327, 23376>>>>],
    \* 末日: 末日 丧尸 废土 灾变 求生 围城 避难所
    [tag |-> <<26411, 26085>>,
     keys |-> <<<<26411, 26085>>, <<20007, 23608>>, <<24223, 22303>>, <<28798, 21464>>, <<27714, 29983>>, <<22260, 22478>>, <<36991, 38590, 25152>>>>],
    \* 历史: 历史 朝堂 皇帝 王朝 权谋 宰相 科举 边关
    [tag |-> <<21382, 21490>>,
     keys |-> <<<<21382, 21490>>, <<26397, 22530>>, <<30343, 24093>>, <<29579, 26397>>, <<26435, 35851>>, <<23472, 30456>>, <<31185, 20030>>, <<36793, 20851>>>>],
    \* 军事: 军事 战争 战场 军团 将军 炮火 阵地 营地
    [tag |-> <<20891, 20107>>,
     keys |-> <<<<20891, 20107>>, <<25112, 20105>>, <<25112, 22330>>, <<20891, 22242>>, <<23558, 20891>>, <<28846, 28779>>, <<38453, 22320>>, <<33829, 22320>>>>],
    \* 游戏: 游戏 网游 副本 玩家 升级 装备 技能 公会
    [tag |-> <<28216, 25103>>,
     keys |-> <<<<28216, 25103>>, <<32593, 28216>>, <<21103, 26412>>, <<29609, 23478>>, <<21319, 32423>>, <<35013, 22791>>, <<25216, 33021>>, <<20844, 20250>>>>],
    \* 灵异: 灵异 鬼怪 诡异 阴阳 驱魔 道士 冥界 厉鬼
    [tag |-> <<28789, 24322>>,
     keys |-> <<<<28789, 24322>>, <<39740, 24618>>, <<35809, 24322>>, <<38452, 38451>>, <<39537, 39764>>, <<36947, 22763>>, <<20901, 30028>>, <<21385, 39740>>>>],
    \* 二次元: 二次元 同人 轻小说 动漫 宅 cos 社团
    [tag |-> <<20108, 27425, 20803>>,
     keys |-> <<<<20108, 27425, 20803>>, <<21516, 20154>>, <<36731, 23567, 35828>>, <<21160, 28459>>, <<23429>>, <<99, 111, 115>>, <<31038, 22242>>>>]
>>

\* _ADULT_RULES (auto_tags.py 151-158)
ADULT_RULES == <<
    \* 后宫: 后宫 全收 全推 开后宫 收后宫
    [tag |-> <<21518, 23467>>,
     keys |-> <<<<21518, 23467>>, <<20840, 25910>>, <<20840, 25512>>, <<24320, 21518, 23467>>, <<25910, 21518, 23467>>>>],
    \* 校花: 校花 班花 女神 学姐 学妹 女老师
    [tag |-> <<26657, 33457>>,
     keys |-> <<<<26657, 33457>>, <<29677, 33457>>, <<22899, 31070>>, <<23398, 22992>>, <<23398, 22969>>, <<22899, 32769, 24072>>>>],
    \* 人妻: 人妻 少妇 熟妇 寡妇
    [tag |-> <<20154, 22971>>,
     keys |-> <<<<20154, 22971>>, <<23569, 22919>>, <<29087, 22919>>, <<23521, 22919>>>>],
    \* 淫荡: 淫荡 放荡 骚 骚气 浪
    [tag |-> <<28139, 33633>>,
     keys |-> <<<<28139, 33633>>, <<25918, 33633>>, <<39578>>, <<39578, 27668>>, <<28010>>>>],
    \* 肉欲: 肉棒 阴茎 龟头 阴蒂 乳房 乳头 内裤 胸罩 屁股
    [tag |-> <<32905, 27442>>,
     keys |-> <<<<32905, 26834>>, <<38452, 33550>>, <<40863, 22836>>, <<38452, 33922>>, <<20083, 25151>>, <<20083, 22836>>, <<20869, 35044>>, <<33016, 32617>>, <<23617, 32929>>>>],
    \* 高潮: 高潮 射精 插入 抽插 内射 深喉 舔 口交
    [tag |-> <<39640, 28526>>,
     keys |-> <<<<39640, 28526>>, <<23556, 31934>>, <<25554, 20837>>, <<25277, 25554>>, <<20869, 23556>>, <<28145, 21897>>, <<33300>>, <<21475, 20132>>>>]
>>

\* _SINGLE_CHAR_WHITELIST: 燃 爽 虐
SINGLE_CHAR_WHITELIST == {<<29123>>, <<29245>>, <<34384>>}

DI == 31532

ZHANG == 31456

JIE == 33410

\* http, https, www
EN_SKIP == {<<104, 116, 116, 112>>, <<104, 116, 116, 112, 115>>, <<119, 119, 119>>}

-----------------------------------------------------------------------------
(* app/services/auto_tags.py: scoring helpers                              *)

\* hay.count(needle): non-overlapping occurrences, scanning left to right.
\* The occurrences of a needle of which no proper prefix is also a suffix
\* cannot overlap, so every one of them counts.
CountOcc(hay, needle) ==
    LET n == Len(hay)
        m == Len(needle)
        hits == {i \in 1..(n - m + 1) : \A k \in 1..m : hay[i + k - 1] = needle[k]}
        bordered == \E k \in 1..(m - 1) :
                        SubSeq(needle, 1, k) = SubSeq(needle, m - k + 1, m)
        C[i \in 1..(n + 1)] ==
            IF i + m - 1 > n THEN 0
            ELSE IF i \in hits THEN 1 + C[i + m]
            ELSE C[i + 1]
    IN  IF hits = {} THEN 0
        ELSE IF ~bordered THEN Cardinality(hits)
        ELSE C[1]

SumSeq(list) ==
    LET F[k \in 0..Len(list)] == IF k = 0 THEN 0 ELSE F[k - 1] + list[k]
    IN  F[Len(list)]

\* c = text.count(k) for each key; a key whose first character does not occur
\* in the text is counted 0 without scanning for it
_keyword_hits(txt, keys) ==
    With({txt[i] : i \in 1..Len(txt)}, LAMBDA present :
    With([k \in 1..Len(keys) |->
            IF keys[k][1] \in present THEN CountOcc(txt, keys[k]) ELSE 0],
         LAMBDA c :
    [distinct |-> Cardinality({k \in 1..Len(keys) : c[k] > 0}),
     total |-> SumSeq(c)]))

_is_noise_token(t) ==
    \/ t = <<>>
    \/ \E i \in 1..Len(t) : IsDigit(t[i])
    \/ Cardinality({t[i] : i \in 1..Len(t)}) = 1
    \/ t \in STOPWORDS_CJK
    \/ (t[1] = DI /\ t[Len(t)] = ZHANG)
    \/ (t[1] = DI /\ t[Len(t)] = JIE)
    \/ (Len(t) = 1 /\ t \notin SINGLE_CHAR_WHITELIST)

\* the windows t[i : i + k] for k in (4, 3, 2), i in range(0, len(t) - k + 1)
TitleWindows(t) ==
    LET W(k) == [i \in 1..IntMax(0, Len(t) - k + 1) |-> SubSeq(t, i, i + k - 1)]
    IN  W(4) \o W(3) \o W(2)

\* concatenation of a list of lists
RECURSIVE Flatten(_)
Flatten(lists) ==
    IF Len(lists) = 0 THEN <<>>
    ELSE IF Len(lists) = 1 THEN lists[1]
    ELSE LET h == Len(lists) \div 2
         IN  Flatten(SubSeq(lists, 1, h)) \o Flatten(SubSeq(lists, h + 1, Len(lists)))

_title_keywords(ttl, txt) ==
    With(Strip(ttl), LAMBDA t :
    With(tokenize_cjk(t), LAMBDA toks0 :
    With([k \in 1..Len(toks0) |-> auto_normalize_tag(toks0[k])], LAMBDA toks :
    LET Offered(tok) ==
            IF tok = <<>> THEN <<>>
            ELSE IF Len(tok) <= 4 THEN <<tok>>
            ELSE SelectSeq(TitleWindows(tok),
                           LAMBDA sub : ~(Len(sub) < 2)
                                        /\ ~(txt # <<>> /\ ~Contains(txt, sub)))
        offered == Flatten([k \in 1..Len(toks) |-> Offered(toks[k])])
        added == Dedupe(SelectSeq(offered, LAMBDA x : ~_is_noise_token(x)))
    IN  IF t = <<>> THEN <<>> ELSE Take(added, 10))))

\* str comparison a < b (lexicographic by code point)
StrLess(a, b) ==
    \E k \in 1..Len(b) :
        /\ k - 1 <= Len(a)
        /\ \A j \in 1..(k - 1) : a[j] = b[j]
        /\ (k > Len(a) \/ a[k] < b[k])

\* tuple comparison (score, tag) > (score, tag)
PairGreater(a, b) == a[1] > b[1] \/ (a[1] = b[1] /\ StrLess(b[2], a[2]))

SeqRange(list) == {list[i] : i \in 1..Len(list)}

\* list.sort(reverse=True) of (score, tag) tuples with pairwise distinct tags
SortDesc(list) ==
    LET R == SeqRange(list)
    IN  [i \in 1..Len(list) |->
            CHOOSE e \in R : Cardinality({f \in R : PairGreater(f, e)}) = i - 1]

Tags(scored) == [k \in 1..Len(scored) |-> scored[k][2]]

\* RuleScored without the cap of 10 on the occurrences
RuleScored_uncapped(src, rules, min_distinct, weight) ==
    With([k \in 1..Len(rules) |-> _keyword_hits(src, rules[k].keys)], LAMBDA h :
    With(SelectSeq(Indices(Len(rules)),
                   LAMBDA k : h[k].distinct >= min_distinct \/ h[k].total >= 6),
         LAMBDA fired :
    [j \in 1..Len(fired) |->
        <<h[fired[j]].distinct * weight + h[fired[j]].total,
          rules[fired[j]].tag>>]))

\* the (score, label) list of a rule table: rules that reach min_distinct
\* distinct keywords or 6 occurrences, scored distinct * weight + min(total, 10)
RuleScored(src, rules, min_distinct, weight) ==
    With([k \in 1..Len(rules) |-> _keyword_hits(src, rules[k].keys)], LAMBDA h :
    With(SelectSeq(Indices(Len(rules)),
                   LAMBDA k : h[k].distinct >= min_distinct \/ h[k].total >= 6),
         LAMBDA fired :
    [j \in 1..Len(fired) |->
        <<h[fired[j]].distinct * weight + IntMin(h[fired[j]].total, 10),
          rules[fired[j]].tag>>]))

\* genre_scored admitting a rule on its first keyword
genre_scored_any_hit(src) == RuleScored(src, GENRE_RULES, 1, 3)

genre_scored(src) == RuleScored(src, GENRE_RULES, 3, 3)

adult_scored(src) == RuleScored(src, ADULT_RULES, 2, 4)

\* number of list elements equal to x  (Counter(list)[x])
CountIn(list, x) == Cardinality({i \in 1..Len(list) : list[i] = x})

-----------------------------------------------------------------------------
(* app/services/auto_tags.py: generate_tags                                *)

BUDGET == 200000

SEGMENTS == 5

BUCKETS == 6

NAME_BUCKET_WEIGHT == 100000

\* iteration order of a Python set of str: it follows the string hashes, which
\* are salted by the interpreter's per-process hash seed.  The seed selects a
\* rotation (seed \div 2) and a direction (seed % 2) of the sorted elements.
SetIter(S) ==
    LET n == Cardinality(S)
        asc == [i \in 1..n |->
                  CHOOSE e \in S : Cardinality({f \in S : StrLess(f, e)}) = i - 1]
        r == (hash_seed \div 2) % n
    IN  IF n = 0 THEN <<>>
        ELSE [i \in 1..n |->
                LET j == ((i - 1 + r) % n) + 1
                IN  IF hash_seed % 2 = 1 THEN asc[n + 1 - j] ELSE asc[j]]

\* toks of one segment: normalized CJK tokens that are not noise
SegTokens(seg) ==
    With(tokenize_cjk(seg), LAMBDA raw :
    SelectSeq([k \in 1..Len(raw) |-> auto_normalize_tag(raw[k])],
              LAMBDA t : ~_is_noise_token(t)))

\* seg_presence as the dict the loops over seg_token_sets build: its items
\* (token, number of segments holding it) in insertion order
seg_presence_items(seg_toks) ==
    With(Dedupe(Flatten([k \in 1..Len(seg_toks) |-> SetIter(SeqRange(seg_toks[k]))])),
         LAMBDA keys :
    [j \in 1..Len(keys) |->
        <<keys[j],
          Cardinality({k \in 1..Len(seg_toks) : keys[j] \in SeqRange(seg_toks[k])})>>])

\* dict.get(key, 0) on a list of items
DictGet(items, key) ==
    IF \E j \in 1..Len(items) : items[j][1] = key
    THEN items[CHOOSE j \in 1..Len(items) : items[j][1] = key][2]
    ELSE 0

\* line 355: the score of a candidate with bc bits in its mask and c
\* occurrences (Python integers: no overflow)
name_score(bc, c) == bc * NAME_BUCKET_WEIGHT + c

\* name_candidates without the test on the number of buckets
name_candidates_any_bucket(ttl, txt) ==
    With(finditer_cjk_1(txt), LAMBDA ms :
    With(SelectSeq([k \in 1..Len(ms) |->
                       [start |-> ms[k].start, tok |-> auto_normalize_tag(ms[k].tok)]],
                   LAMBDA m : /\ Len(m.tok) \in {2, 3}
                              /\ ~_is_noise_token(m.tok)
                              /\ ~(ttl # <<>> /\ Contains(ttl, m.tok))),
         LAMBDA kept :
    With([k \in 1..Len(kept) |-> kept[k].tok], LAMBDA toks :
    LET n == IF Len(txt) = 0 THEN 1 ELSE Len(txt)
        \* int(m.start() / n * buckets), the floor of the exact quotient
        Bucket(start) ==
            LET b == (start * BUCKETS) \div n
            IN  IF b >= BUCKETS THEN BUCKETS - 1 ELSE b
        Mask(t) == {Bucket(kept[k].start) : k \in {i \in 1..Len(kept) : kept[i].tok = t}}
    IN  With(SelectSeq(Dedupe(toks),
                 LAMBDA t : CountIn(toks, t) >= 6),
             LAMBDA qualified :
        [j \in 1..Len(qualified) |->
            <<name_score(Cardinality(Mask(qualified[j])), CountIn(toks, qualified[j])),
              qualified[j]>>]))))

\* the (score, token) list of the name detector, before sorting
name_candidates(ttl, txt) ==
    With(finditer_cjk_1(txt), LAMBDA ms :
    With(SelectSeq([k \in 1..Len(ms) |->
                       [start |-> ms[k].start, tok |-> auto_normalize_tag(ms[k].tok)]],
                   LAMBDA m : /\ Len(m.tok) \in {2, 3}
                              /\ ~_is_noise_token(m.tok)
                              /\ ~(ttl # <<>> /\ Contains(ttl, m.tok))),
         LAMBDA kept :
    With([k \in 1..Len(kept) |-> kept[k].tok], LAMBDA toks :
    LET n == IF Len(txt) = 0 THEN 1 ELSE Len(txt)
        \* int(m.start() / n * buckets), the floor of the exact quotient
        Bucket(start) ==
            LET b == (start * BUCKETS) \div n
            IN  IF b >= BUCKETS THEN BUCKETS - 1 ELSE b
        Mask(t) == {Bucket(kept[k].start) : k \in {i \in 1..Len(kept) : kept[i].tok = t}}
    IN  With(SelectSeq(Dedupe(toks),
                 LAMBDA t : Cardinality(Mask(t)) >= 2 /\ CountIn(toks, t) >= 6),
             LAMBDA qualified :
        [j \in 1..Len(qualified) |->
            <<name_score(Cardinality(Mask(qualified[j])), CountIn(toks, qualified[j])),
              qualified[j]>>]))))

\* lines 350-356 on the items of name_counter: the (score, token) list of
\* the tokens with at least 2 buckets and 6 occurrences, sorted in reverse
ranked_names(counter) ==
    With(SelectSeq(counter, LAMBDA e : Cardinality(e.mask) >= 2 /\ e.c >= 6),
         LAMBDA qualified :
    SortDesc([j \in 1..Len(qualified) |->
                 <<name_score(Cardinality(qualified[j].mask), qualified[j].c),
                   qualified[j].tok>>]))

\* the (score, token) list of the keyword extractor, before sorting
keyword_candidates(ttl, seg_tokens_all, presence, claimed) ==
    With(SelectSeq(Dedupe(seg_tokens_all),
             LAMBDA t : /\ ~(Len(t) < 2 \/ Len(t) > 6)
                        /\ ~InSeq(t, claimed)
                        /\ ~(ttl # <<>> /\ Contains(ttl, t))
                        /\ ~(DictGet(presence, t) <= 0)
                        /\ ~(CountIn(seg_tokens_all, t) < 6
                               /\ DictGet(presence, t) < 2)),
         LAMBDA kept :
    [j \in 1..Len(kept) |->
        <<DictGet(presence, kept[j]) * 1000 + CountIn(seg_tokens_all, kept[j]),
          kept[j]>>])

\* Counter(tokens).most_common(40): by count descending, ties in first-seen order
most_common_40(tokens) ==
    With(Dedupe(tokens), LAMBDA keys :
    LET Before(i, j) ==
            \/ CountIn(tokens, keys[i]) > CountIn(tokens, keys[j])
            \/ (CountIn(tokens, keys[i]) = CountIn(tokens, keys[j]) /\ i < j)
    IN  Take([r \in 1..Len(keys) |->
                keys[CHOOSE j \in 1..Len(keys) :
                       Cardinality({i \in 1..Len(keys) : Before(i, j)}) = r - 1]],
             40))

\* append_keywords putting the keyword tags in front of the list
append_keywords_in_front(tags0, cands, lim) ==
    LET fresh == Dedupe(SelectSeq(Tags(cands), LAMBDA t : ~InSeq(t, tags0)))
    IN  Take(fresh, IntMax(0, lim - Len(tags0))) \o tags0

\* lines 386-391: keyword tags are appended until the list reaches the
\* limit; a candidate already in the list is skipped.  What the loop appends
\* is the first (limit - len(tags)) candidates that are not in the list.
append_keywords(tags0, cands, lim) ==
    LET fresh == Dedupe(SelectSeq(Tags(cands), LAMBDA t : ~InSeq(t, tags0)))
    IN  tags0 \o Take(fresh, IntMax(0, lim - Len(tags0)))

\* lines 393-400: English tokens, normalized, fill what is left in the same
\* way; empty ones are skipped
append_english(tags0, common, lim) ==
    LET norm == [k \in 1..Len(common) |-> auto_normalize_tag(common[k])]
        fresh == Dedupe(SelectSeq(norm, LAMBDA t : t # <<>> /\ ~InSeq(t, tags0)))
    IN  IF Len(tags0) < lim /\ common # <<>>
        THEN tags0 \o Take(fresh, IntMax(0, lim - Len(tags0)))
        ELSE tags0

\* final_tags without the cut to the limit
final_tags_uncut(tags0, lim) ==
    LET norm == [k \in 1..Len(tags0) |-> auto_normalize_tag(tags0[k])]
    IN  Dedupe(SelectSeq(norm, LAMBDA t : t # <<>>))

\* final_tags cut one element short of the limit
final_tags_short(tags0, lim) ==
    LET norm == [k \in 1..Len(tags0) |-> auto_normalize_tag(tags0[k])]
    IN  Take(Dedupe(SelectSeq(norm, LAMBDA t : t # <<>>)), lim - 1)

\* final_tags without the removal of duplicates
final_tags_repeating(tags0, lim) ==
    LET norm == [k \in 1..Len(tags0) |-> auto_normalize_tag(tags0[k])]
    IN  Take(SelectSeq(norm, LAMBDA t : t # <<>>), lim)

\* final_tags removing duplicates through a set: list(set(tags))[:limit]
final_tags_unordered(tags0, lim) ==
    LET norm == [k \in 1..Len(tags0) |-> auto_normalize_tag(tags0[k])]
    IN  Take(SetIter(SeqRange(SelectSeq(norm, LAMBDA t : t # <<>>))), lim)

\* lines 402-403: normalize again, drop empty tags, dedupe, cut to the limit
\* (the limit is drawn from the naturals; a negative limit is not modelled)
final_tags(tags0, lim) ==
    LET norm == [k \in 1..Len(tags0) |-> auto_normalize_tag(tags0[k])]
    IN  Take(Dedupe(SelectSeq(norm, LAMBDA t : t # <<>>)), lim)

\* lines 289-295: the stripped title, the text the classifiers read and the
\* segments the keyword extractor tokenizes
generate_tags_samples(ttl0, txt) ==
    With(Strip(ttl0), LAMBDA ttl :
    LET overhead == IF ttl # <<>> THEN Len(ttl) + 1 ELSE 0
        available == IntMax(0, BUDGET - overhead)
        seg_len == IF available # 0
                   THEN IntMax(MIN_SEG_LEN, available \div SEGMENTS)
                   ELSE MIN_SEG_LEN
    IN  [title |-> ttl,
         src |-> sample_text(ttl, txt, BUDGET, SEGMENTS),
         seg_len |-> seg_len,
         segments |-> sample_segments(txt, seg_len, SEGMENTS)])

\* the local values of one generate_tags call
generate_tags_locals(ttl0, txt, lim) ==
    With(generate_tags_samples(ttl0, txt), LAMBDA samples :
    With(samples.title, LAMBDA ttl :
    With(samples.src, LAMBDA src :
    With(samples.segments, LAMBDA segs :
    With(_title_keywords(ttl, src), LAMBDA title_tags :
    With(Tags(Take(SortDesc(genre_scored(src)), 2)), LAMBDA genre_tags :
    With(Tags(Take(SortDesc(adult_scored(src)), 4)), LAMBDA adult_tags :
    With(IF segs # <<>> THEN segs ELSE <<src>>, LAMBDA used :
    With([k \in 1..Len(used) |-> SegTokens(used[k])], LAMBDA seg_toks :
    With(Flatten(seg_toks), LAMBDA seg_tokens_all :
    With(SortDesc(name_candidates(ttl, txt)), LAMBDA names :
    With(Tags(Take(names, 8)), LAMBDA name_tags :
    With(SortDesc(keyword_candidates(ttl, seg_tokens_all,
                      seg_presence_items(seg_toks),
                      genre_tags \o adult_tags \o name_tags \o title_tags)),
         LAMBDA kw :
    With(SelectSeq(tokenize_en(src), LAMBDA t : t \notin EN_SKIP), LAMBDA en_tokens :
    With(title_tags \o adult_tags \o genre_tags \o name_tags, LAMBDA tags0 :
    With(append_keywords(tags0, kw, lim), LAMBDA tags1 :
    With(most_common_40(en_tokens), LAMBDA common :
    With(append_english(tags1, common, lim), LAMBDA tags2 :
    [src |-> src,
     title_tags |-> title_tags,
     adult_tags |-> adult_tags,
     genre_tags |-> genre_tags,
     name_tags |-> name_tags,
     name_candidates |-> names,
     seg_tokens |-> seg_toks,
     keywords |-> kw,
     keyword_tags |-> Tags(kw),
     en_tags |-> [k \in 1..Len(common) |-> auto_normalize_tag(common[k])],
     tags |-> final_tags(tags2, lim)]))))))))))))))))))

generate_tags(ttl, txt, lim) == generate_tags_locals(ttl, txt, lim).tags

-----------------------------------------------------------------------------
(* app/services/metadata.py: cleaners and the file name parser             *)

DOT == 46

LBOOK == 12298

RBOOK == 12299

COLON == 58

WIDE_COLON == 65306

\* - _ — –
TITLE_SEPARATORS == {45, 95, 8212, 8211}

\* [ ( （ 【
OPENERS == {91, 40, 65288, 12304}

\* ] ) ） 】
CLOSERS == {93, 41, 65289, 12305}

\* 未知
UNKNOWN_TITLE == <<26410, 30693>>

\* Unknown
UNKNOWN_AUTHOR == <<85, 110, 107, 110, 111, 119, 110>>

\* 作者
AUTHOR_LABEL == <<20316, 32773>>

\* no "\n" in s: the characters a regex "." accepts
NoNL(s) == \A i \in 1..Len(s) : s[i] # NL

\* the first index j >= i of s whose character is outside C (Len(s) + 1 if
\* there is none): where a greedy [C]* that starts at i stops
SkipWhile(s, i, C) ==
    LET stop == {j \in i..Len(s) : s[j] \notin C}
    IN  IF stop = {} THEN IntMax(i, Len(s) + 1) ELSE SetMin(stop)

\* _clean_title without the fallback to 未知
_clean_title_unguarded(v0) ==
    With(_clean_value(v0), LAMBDA v :
    LET n == Len(v)
        from == {i \in 1..(n - 1) :
                   v[i] \in OPENERS /\ NoNL(SubSeq(v, i + 1, n - 1))}
    IN  IF n >= 2 /\ v[n] \in CLOSERS /\ from # {}
        THEN Strip(SubSeq(v, 1, SetMin(from) - 1))
        ELSE v)

\* re.sub(r"[\[\(（【].*?[\]\)）】]\s*$", "", v) on a stripped v: the match
\* starts at the first opening bracket that a closing bracket at the end of
\* v can answer without a newline in between
_clean_title(v0) ==
    With(_clean_value(v0), LAMBDA v :
    LET n == Len(v)
        from == {i \in 1..(n - 1) :
                   v[i] \in OPENERS /\ NoNL(SubSeq(v, i + 1, n - 1))}
    IN  With(IF n >= 2 /\ v[n] \in CLOSERS /\ from # {}
             THEN Strip(SubSeq(v, 1, SetMin(from) - 1))
             ELSE v,
             LAMBDA cut : IF cut = <<>> THEN UNKNOWN_TITLE ELSE cut))

\* re.sub(r"^作者[:：]\s*", "", v).strip()
_clean_author(v0) ==
    With(_clean_value(v0), LAMBDA v :
    LET labelled == /\ Len(v) >= 3
                    /\ SubSeq(v, 1, 2) = AUTHOR_LABEL
                    /\ v[3] \in {COLON, WIDE_COLON}
    IN  With(IF labelled
             THEN Strip(SubSeq(v, SkipWhile(v, 4, PyWhitespace), Len(v)))
             ELSE v,
             LAMBDA cut : IF v = <<>> \/ cut = <<>> THEN UNKNOWN_AUTHOR ELSE cut))

NoMatch == [ok |-> FALSE, title |-> <<>>, author |-> <<>>]

\* _RE_TITLE_AUTHOR_2.match(base), ^《(?P<title>.+?)》\s*(?P<author>.+?)$ :
\* the title ends at the first 》 after which an author without newline is
\* left (base is stripped, so $ is the end of base)
match_title_author_2(base) ==
    LET n == Len(base)
        AuthorAt(j) == SkipWhile(base, j + 1, PyWhitespace)
    IN  With({j \in 3..n :
                /\ base[j] = RBOOK
                /\ NoNL(SubSeq(base, 2, j - 1))
                /\ AuthorAt(j) <= n
                /\ NoNL(SubSeq(base, AuthorAt(j), n))},
             LAMBDA ends :
        IF n >= 1 /\ base[1] = LBOOK /\ ends # {}
        THEN [ok |-> TRUE,
              title |-> SubSeq(base, 2, SetMin(ends) - 1),
              author |-> SubSeq(base, AuthorAt(SetMin(ends)), n)]
        ELSE NoMatch)

\* _RE_TITLE_AUTHOR_1.match(base),
\* ^(?P<title>.+?)\s*[-_—–]\s*(?P<author>.+?)$ : the shortest title after
\* which blanks, a separator, blanks and an author without newline follow
match_title_author_1(base) ==
    LET n == Len(base)
        SepAt(t) == SkipWhile(base, t + 1, PyWhitespace)
        AuthorAt(t) == SkipWhile(base, SepAt(t) + 1, PyWhitespace)
    IN  With({t \in 1..n :
                /\ NoNL(SubSeq(base, 1, t))
                /\ SepAt(t) <= n
                /\ base[SepAt(t)] \in TITLE_SEPARATORS
                /\ AuthorAt(t) <= n
                /\ NoNL(SubSeq(base, AuthorAt(t), n))},
             LAMBDA lens :
        IF lens # {}
        THEN [ok |-> TRUE,
              title |-> SubSeq(base, 1, SetMin(lens)),
              author |-> SubSeq(base, AuthorAt(SetMin(lens)), n)]
        ELSE NoMatch)

\* base.rsplit(".", 1)[0]
BeforeLastDot(s) ==
    LET dots == {i \in 1..Len(s) : s[i] = DOT}
    IN  IF dots = {} THEN s ELSE SubSeq(s, 1, SetMax(dots) - 1)

\* parse_title_author_from_filename trying Title-separator-Author first
parse_title_author_dash_first(name) ==
    With(_clean_value(BeforeLastDot(_clean_value(name))), LAMBDA base :
    With(match_title_author_2(base), LAMBDA m2 :
    With(match_title_author_1(base), LAMBDA m1 :
    IF m1.ok
    THEN [title |-> _clean_title(m1.title), author |-> _clean_author(m1.author)]
    ELSE IF m2.ok
    THEN [title |-> _clean_title(m2.title), author |-> _clean_author(m2.author)]
    ELSE [title |-> _clean_title(base), author |-> UNKNOWN_AUTHOR])))

parse_title_author_from_filename(name) ==
    With(_clean_value(BeforeLastDot(_clean_value(name))), LAMBDA base :
    With(match_title_author_2(base), LAMBDA m2 :
    With(match_title_author_1(base), LAMBDA m1 :
    IF m2.ok
    THEN [title |-> _clean_title(m2.title), author |-> _clean_author(m2.author)]
    ELSE IF m1.ok
    THEN [title |-> _clean_title(m1.title), author |-> _clean_author(m1.author)]
    ELSE [title |-> _clean_title(base), author |-> UNKNOWN_AUTHOR])))

-----------------------------------------------------------------------------
(* app/services/metadata.py: front matter                                  *)

TAGS_CAP == 30

DESC_CAP == 800

SCAN_LINES == 1200

FRONT_LINES == 400

\* | / 、 , ， ; ； tab space
TAG_SEPARATORS == {124, 47, 12289, 44, 65292, 59, 65307, 9, 32}

\* - * •
BULLETS == {45, 42, 8226}

\* 【 [
LABEL_OPENERS == {12304, 91}

\* 】 ]
LABEL_CLOSERS == {12305, 93}

\* the characters str.splitlines() breaks at (CR LF counts once)
LINE_BREAKS == {10, 11, 12, 13, 28, 29, 30, 133, 8232, 8233}

\* 书名 作者 标签 分类 主角 人物 角色 关键字 关键词 题材 类型 简介
\* title author tag tags category description
FIELD_KEYS ==
    <<<<20070, 21517>>, <<20316, 32773>>, <<26631, 31614>>, <<20998, 31867>>,
      <<20027, 35282>>, <<20154, 29289>>, <<35282, 33394>>,
      <<20851, 38190, 23383>>, <<20851, 38190, 35789>>, <<39064, 26448>>,
      <<31867, 22411>>, <<31616, 20171>>, <<116, 105, 116, 108, 101>>,
      <<97, 117, 116, 104, 111, 114>>, <<116, 97, 103>>,
      <<116, 97, 103, 115>>, <<99, 97, 116, 101, 103, 111, 114, 121>>,
      <<100, 101, 115, 99, 114, 105, 112, 116, 105, 111, 110>>>>

\* 书名, title
TITLE_KEYS == {<<20070, 21517>>, <<116, 105, 116, 108, 101>>}

\* 作者, author
AUTHOR_KEYS == {<<20316, 32773>>, <<97, 117, 116, 104, 111, 114>>}

\* 标签 分类 主角 人物 角色 关键字 关键词 题材 类型 tag tags category
TAG_KEYS ==
    {<<26631, 31614>>, <<20998, 31867>>, <<20027, 35282>>, <<20154, 29289>>,
      <<35282, 33394>>, <<20851, 38190, 23383>>, <<20851, 38190, 35789>>,
      <<39064, 26448>>, <<31867, 22411>>, <<116, 97, 103>>,
      <<116, 97, 103, 115>>, <<99, 97, 116, 101, 103, 111, 114, 121>>}

\* 简介, description
DESC_KEYS == {<<31616, 20171>>, <<100, 101, 115, 99, 114, 105, 112, 116, 105, 111, 110>>}

\* the non-empty pieces of _RE_SEP.split(s): the maximal runs of characters
\* that are not separators
SplitNonEmpty(s, seps) ==
    LET n == Len(s)
        starts == SelectSeq([i \in 1..n |-> i],
                      LAMBDA i : s[i] \notin seps /\ (i = 1 \/ s[i - 1] \in seps))
        End(i) == SetMin({j \in i..n : j = n \/ s[j + 1] \in seps})
    IN  [k \in 1..Len(starts) |-> SubSeq(s, starts[k], End(starts[k]))]

_split_tags(raw0) ==
    With(SplitNonEmpty(_clean_value(raw0), TAG_SEPARATORS), LAMBDA parts :
    Take(Dedupe(SelectSeq([k \in 1..Len(parts) |-> meta_normalize_tag(parts[k])],
                          LAMBDA t : t # <<>>)),
         TAGS_CAP))

\* str.splitlines(): a line starts at the first character and after every
\* line terminator, and runs up to its own terminator; CR LF is one
\* terminator
SplitLines(s) ==
    LET n == Len(s)
        \* i is the last character of a line terminator
        Ends(i) == s[i] \in LINE_BREAKS /\ ~(s[i] = CR /\ i < n /\ s[i + 1] = NL)
        \* the length of the terminator that ends at e, for a line from a
        Term(a, e) == IF s[e] = NL /\ e > a /\ s[e - 1] = CR THEN 2 ELSE 1
    IN  With(SelectSeq(Indices(n), LAMBDA i : i = 1 \/ Ends(i - 1)), LAMBDA starts :
        With(SelectSeq(Indices(n), LAMBDA i : Ends(i)), LAMBDA ends :
        \* the k-th line runs up to the k-th terminator, the last one to
        \* the end of the string when no terminator follows it
        [k \in 1..Len(starts) |->
            IF k > Len(ends) THEN SubSeq(s, starts[k], n)
            ELSE SubSeq(s, starts[k], ends[k] - Term(starts[k], ends[k]))]))

\* _RE_FIELD.match(ln) on a stripped line: bullets, blanks, an opening label
\* bracket, a key (ASCII letters in either case), a closing label bracket,
\* blanks, a colon; k is the key lower-cased, v the rest without the blanks
\* around it.  (Under IGNORECASE the letters U+017F, U+0130 and U+0131 also
\* match s and i, but k.lower() is then none of the keys and the line is
\* skipped, as it is here.)
_RE_FIELD_match(ln) ==
    LET n == Len(ln)
        a == SkipWhile(ln, SkipWhile(ln, 1, PyWhitespace), BULLETS)
    IN  With(SkipWhile(ln, a, PyWhitespace), LAMBDA b :
        With(IF b <= n /\ ln[b] \in LABEL_OPENERS THEN b + 1 ELSE b, LAMBDA c :
        LET KeyEnd(key) == c + Len(key)
            AfterLabel(key) ==
                IF KeyEnd(key) <= n /\ ln[KeyEnd(key)] \in LABEL_CLOSERS
                THEN KeyEnd(key) + 1 ELSE KeyEnd(key)
            ColonAt(key) == SkipWhile(ln, AfterLabel(key), PyWhitespace)
            Fits(key) ==
                /\ KeyEnd(key) - 1 <= n
                /\ Lower(SubSeq(ln, c, KeyEnd(key) - 1)) = key
                /\ ColonAt(key) <= n
                /\ ln[ColonAt(key)] \in {COLON, WIDE_COLON}
        IN  With({j \in 1..Len(FIELD_KEYS) : Fits(FIELD_KEYS[j])}, LAMBDA fit :
            IF fit = {} THEN [ok |-> FALSE, k |-> <<>>, v |-> <<>>]
            ELSE With(FIELD_KEYS[SetMin(fit)], LAMBDA found :
                 [ok |-> TRUE,
                  k |-> found,
                  v |-> Strip(SubSeq(ln, ColonAt(found) + 1, n))]))))

\* front_matter_lines where the empty lines are dropped before the cut to
\* 1200 lines
front_matter_lines_filter_first(txt) ==
    With(SplitLines(txt), LAMBDA raw :
    Take(Take(SelectSeq([k \in 1..Len(raw) |-> Strip(raw[k])], LAMBDA ln : ln # <<>>),
              SCAN_LINES),
         FRONT_LINES))

\* the lines the extractor scans: the first 1200 lines, stripped, without
\* the empty ones, cut to 400
front_matter_lines(txt) ==
    With(Take(SplitLines(txt), SCAN_LINES), LAMBDA raw :
    Take(SelectSeq([k \in 1..Len(raw) |-> Strip(raw[k])], LAMBDA ln : ln # <<>>),
         FRONT_LINES))

\* _extract_txt_front_matter where the last line of a field wins
_extract_txt_front_matter_last_wins(txt) ==
    With(front_matter_lines(txt), LAMBDA lines :
    With([k \in 1..Len(lines) |-> _RE_FIELD_match(lines[k])], LAMBDA m :
    LET Value(k) == _clean_value(m[k].v)
        Carrying(keys) == {k \in 1..Len(lines) : m[k].ok /\ m[k].k \in keys}
        First(keys) == SetMax(Carrying(keys))
        tags == Flatten([k \in 1..Len(lines) |->
                           IF k \in Carrying(TAG_KEYS) THEN _split_tags(Value(k))
                           ELSE <<>>])
    IN  [title |-> IF Carrying(TITLE_KEYS) = {} THEN <<>>
                   ELSE <<_clean_title(Value(First(TITLE_KEYS)))>>,
         author |-> IF Carrying(AUTHOR_KEYS) = {} THEN <<>>
                    ELSE <<_clean_author(Value(First(AUTHOR_KEYS)))>>,
         tags |-> Take(Dedupe(SelectSeq(tags, LAMBDA t : t # <<>>)), TAGS_CAP),
         description |-> IF Carrying(DESC_KEYS) = {} THEN <<>>
                         ELSE <<Take(Value(First(DESC_KEYS)), DESC_CAP)>>]))

\* the dict the loop over the lines builds (an absent key is <<>>, a present
\* one <<value>>): title, author and description are set by the first line
\* that carries their key, the tags of every tag-like line are appended
front_matter_fields(lines) ==
    With([k \in 1..Len(lines) |-> _RE_FIELD_match(lines[k])], LAMBDA m :
    LET Value(k) == _clean_value(m[k].v)
        Carrying(keys) == {k \in 1..Len(lines) : m[k].ok /\ m[k].k \in keys}
        First(keys) == SetMin(Carrying(keys))
        tags == Flatten([k \in 1..Len(lines) |->
                           IF k \in Carrying(TAG_KEYS) THEN _split_tags(Value(k))
                           ELSE <<>>])
    IN  [title |-> IF Carrying(TITLE_KEYS) = {} THEN <<>>
                   ELSE <<_clean_title(Value(First(TITLE_KEYS)))>>,
         author |-> IF Carrying(AUTHOR_KEYS) = {} THEN <<>>
                    ELSE <<_clean_author(Value(First(AUTHOR_KEYS)))>>,
         tags |-> Take(Dedupe(SelectSeq(tags, LAMBDA t : t # <<>>)), TAGS_CAP),
         description |-> IF Carrying(DESC_KEYS) = {} THEN <<>>
                         ELSE <<Take(Value(First(DESC_KEYS)), DESC_CAP)>>])

\* _extract_txt_front_matter(text): the loop runs over the scanned lines
_extract_txt_front_matter(txt) == front_matter_fields(front_matter_lines(txt))

\* the code point ranges on which str.isalnum() holds
ALNUM_RANGES ==
    {<<48, 57>>, <<65, 90>>, <<97, 122>>, <<170, 170>>, <<178, 179>>,
     <<181, 181>>, <<185, 186>>, <<188, 190>>, <<192, 214>>, <<216, 246>>,
     <<248, 705>>, <<710, 721>>, <<736, 740>>, <<748, 748>>, <<750, 750>>,
     <<880, 884>>, <<886, 887>>, <<890, 893>>, <<895, 895>>, <<902, 902>>,
     <<904, 906>>, <<908, 908>>, <<910, 929>>, <<931, 1013>>, <<1015, 1153>>,
     <<1162, 1327>>, <<1329, 1366>>, <<1369, 1369>>, <<1376, 1416>>,
     <<1488, 1514>>, <<1519, 1522>>, <<1568, 1610>>, <<1632, 1641>>,
     <<1646, 1647>>, <<1649, 1747>>, <<1749, 1749>>, <<1765, 1766>>,
     <<1774, 1788>>, <<1791, 1791>>, <<1808, 1808>>, <<1810, 1839>>,
     <<1869, 1957>>, <<1969, 1969>>, <<1984, 2026>>, <<2036, 2037>>,
     <<2042, 2042>>, <<2048, 2069>>, <<2074, 2074>>, <<2084, 2084>>,
     <<2088, 2088>>, <<2112, 2136>>, <<2144, 2154>>, <<2160, 2183>>,
     <<2185, 2190>>, <<2208, 2249>>, <<2308, 2361>>, <<2365, 2365>>,
     <<2384, 2384>>, <<2392, 2401>>, <<2406, 2415>>, <<2417, 2432>>,
     <<2437, 2444>>, <<2447, 2448>>, <<2451, 2472>>, <<2474, 2480>>,
     <<2482, 2482>>, <<2486, 2489>>, <<2493, 2493>>, <<2510, 2510>>,
     <<2524, 2525>>, <<2527, 2529>>, <<2534, 2545>>, <<2548, 2553>>,
     <<2556, 2556>>, <<2565, 2570>>, <<2575, 2576>>, <<2579, 2600>>,
     <<2602, 2608>>, <<2610, 2611>>, <<2613, 2614>>, <<2616, 2617>>,
     <<2649, 2652>>, <<2654, 2654>>, <<2662, 2671>>, <<2674, 2676>>,
     <<2693, 2701>>, <<2703, 2705>>, <<2707, 2728>>, <<2730, 2736>>,
     <<2738, 2739>>, <<2741, 2745>>, <<2749, 2749>>, <<2768, 2768>>,
     <<2784, 2785>>, <<2790, 2799>>, <<2809, 2809>>, <<2821, 2828>>,
     <<2831, 2832>>, <<2835, 2856>>, <<2858, 2864>>, <<2866, 2867>>,
     <<2869, 2873>>, <<2877, 2877>>, <<2908, 2909>>, <<2911, 2913>>,
     <<2918, 2927>>, <<2929, 2935>>, <<2947, 2947>>, <<2949, 2954>>,
     <<2958, 2960>>, <<2962, 2965>>, <<2969, 2970>>, <<2972, 2972>>,
     <<2974, 2975>>, <<2979, 2980>>, <<2984, 2986>>, <<2990, 3001>>,
     <<3024, 3024>>, <<3046, 3058>>, <<3077, 3084>>, <<3086, 3088>>,
     <<3090, 3112>>, <<3114, 3129>>, <<3133, 3133>>, <<3160, 3162>>,
     <<3165, 3165>>, <<3168, 3169>>, <<3174, 3183>>, <<3192, 3198>>,
     <<3200, 3200>>, <<3205, 3212>>, <<3214, 3216>>, <<3218, 3240>>,
     <<3242, 3251>>, <<3253, 3257>>, <<3261, 3261>>, <<3293, 3294>>,
     <<3296, 3297>>, <<3302, 3311>>, <<3313, 3314>>, <<3332, 3340>>,
     <<3342, 3344>>, <<3346, 3386>>, <<3389, 3389>>, <<3406, 3406>>,
     <<3412, 3414>>, <<3416, 3425>>, <<3430, 3448>>, <<3450, 3455>>,
     <<3461, 3478>>, <<3482, 3505>>, <<3507, 3515>>, <<3517, 3517>>,
     <<3520, 3526>>, <<3558, 3567>>, <<3585, 3632>>, <<3634, 3635>>,
     <<3648, 3654>>, <<3664, 3673>>, <<3713, 3714>>, <<3716, 3716>>,
     <<3718, 3722>>, <<3724, 3747>>, <<3749, 3749>>, <<3751, 3760>>,
     <<3762, 3763>>, <<3773, 3773>>, <<3776, 3780>>, <<3782, 3782>>,
     <<3792, 3801>>, <<3804, 3807>>, <<3840, 3840>>, <<3872, 3891>>,
     <<3904, 3911>>, <<3913, 3948>>, <<3976, 3980>>, <<4096, 4138>>,
     <<4159, 4169>>, <<4176, 4181>>, <<4186, 4189>>, <<4193, 4193>>,
     <<4197, 4198>>, <<4206, 4208>>, <<4213, 4225>>, <<4238, 4238>>,
     <<4240, 4249>>, <<4256, 4293>>, <<4295, 4295>>, <<4301, 4301>>,
     <<4304, 4346>>, <<4348, 4680>>, <<4682, 4685>>, <<4688, 4694>>,
     <<4696, 4696>>, <<4698, 4701>>, <<4704, 4744>>, <<4746, 4749>>,
     <<4752, 4784>>, <<4786, 4789>>, <<4792, 4798>>, <<4800, 4800>>,
     <<4802, 4805>>, <<4808, 4822>>, <<4824, 4880>>, <<4882, 4885>>,
     <<4888, 4954>>, <<4969, 4988>>, <<4992, 5007>>, <<5024, 5109>>,
     <<5112, 5117>>, <<5121, 5740>>, <<5743, 5759>>, <<5761, 5786>>,
     <<5792, 5866>>, <<5870, 5880>>, <<5888, 5905>>, <<5919, 5937>>,
     <<5952, 5969>>, <<5984, 5996>>, <<5998, 6000>>, <<6016, 6067>>,
     <<6103, 6103>>, <<6108, 6108>>, <<6112, 6121>>, <<6128, 6137>>,
     <<6160, 6169>>, <<6176, 6264>>, <<6272, 6276>>, <<6279, 6312>>,
     <<6314, 6314>>, <<6320, 6389>>, <<6400, 6430>>, <<6470, 6509>>,
     <<6512, 6516>>, <<6528, 6571>>, <<6576, 6601>>, <<6608, 6618>>,
     <<6656, 6678>>, <<6688, 6740>>, <<6784, 6793>>, <<6800, 6809>>,
     <<6823, 6823>>, <<6917, 6963>>, <<6981, 6988>>, <<6992, 7001>>,
     <<7043, 7072>>, <<7086, 7141>>, <<7168, 7203>>, <<7232, 7241>>,
     <<7245, 7293>>, <<7296, 7304>>, <<7312, 7354>>, <<7357, 7359>>,
     <<7401, 7404>>, <<7406, 7411>>, <<7413, 7414>>, <<7418, 7418>>,
     <<7424, 7615>>, <<7680, 7957>>, <<7960, 7965>>, <<7968, 8005>>,
     <<8008, 8013>>, <<8016, 8023>>, <<8025, 8025>>, <<8027, 8027>>,
     <<8029, 8029>>, <<8031, 8061>>, <<8064, 8116>>, <<8118, 8124>>,
     <<8126, 8126>>, <<8130, 8132>>, <<8134, 8140>>, <<8144, 8147>>,
     <<8150, 8155>>, <<8160, 8172>>, <<8178, 8180>>, <<8182, 8188>>,
     <<8304, 8305>>, <<8308, 8313>>, <<8319, 8329>>, <<8336, 8348>>,
     <<8450, 8450>>, <<8455, 8455>>, <<8458, 8467>>, <<8469, 8469>>,
     <<8473, 8477>>, <<8484, 8484>>, <<8486, 8486>>, <<8488, 8488>>,
     <<8490, 8493>>, <<8495, 8505>>, <<8508, 8511>>, <<8517, 8521>>,
     <<8526, 8526>>, <<8528, 8585>>, <<9312, 9371>>, <<9450, 9471>>,
     <<10102, 10131>>, <<11264, 11492>>, <<11499, 11502>>, <<11506, 11507>>,
     <<11517, 11517>>, <<11520, 11557>>, <<11559, 11559>>, <<11565, 11565>>,
     <<11568, 11623>>, <<11631, 11631>>, <<11648, 11670>>, <<11680, 11686>>,
     <<11688, 11694>>, <<11696, 11702>>, <<11704, 11710>>, <<11712, 11718>>,
     <<11720, 11726>>, <<11728, 11734>>, <<11736, 11742>>, <<11823, 11823>>,
     <<12293, 12295>>, <<12321, 12329>>, <<12337, 12341>>, <<12344, 12348>>,
     <<12353, 12438>>, <<12445, 12447>>, <<12449, 12538>>, <<12540, 12543>>,
     <<12549, 12591>>, <<12593, 12686>>, <<12690, 12693>>, <<12704, 12735>>,
     <<12784, 12799>>, <<12832, 12841>>, <<12872, 12879>>, <<12881, 12895>>,
     <<12928, 12937>>, <<12977, 12991>>, <<13312, 19903>>, <<19968, 42124>>,
     <<42192, 42237>>, <<42240, 42508>>, <<42512, 42539>>, <<42560, 42606>>,
     <<42623, 42653>>, <<42656, 42735>>, <<42775, 42783>>, <<42786, 42888>>,
     <<42891, 42954>>, <<42960, 42961>>, <<42963, 42963>>, <<42965, 42969>>,
     <<42994, 43009>>, <<43011, 43013>>, <<43015, 43018>>, <<43020, 43042>>,
     <<43056, 43061>>, <<43072, 43123>>, <<43138, 43187>>, <<43216, 43225>>,
     <<43250, 43255>>, <<43259, 43259>>, <<43261, 43262>>, <<43264, 43301>>,
     <<43312, 43334>>, <<43360, 43388>>, <<43396, 43442>>, <<43471, 43481>>,
     <<43488, 43492>>, <<43494, 43518>>, <<43520, 43560>>, <<43584, 43586>>,
     <<43588, 43595>>, <<43600, 43609>>, <<43616, 43638>>, <<43642, 43642>>,
     <<43646, 43695>>, <<43697, 43697>>, <<43701, 43702>>, <<43705, 43709>>,
     <<43712, 43712>>, <<43714, 43714>>, <<43739, 43741>>, <<43744, 43754>>,
     <<43762, 43764>>, <<43777, 43782>>, <<43785, 43790>>, <<43793, 43798>>,
     <<43808, 43814>>, <<43816, 43822>>, <<43824, 43866>>, <<43868, 43881>>,
     <<43888, 44002>>, <<44016, 44025>>, <<44032, 55203>>, <<55216, 55238>>,
     <<55243, 55291>>, <<63744, 64109>>, <<64112, 64217>>, <<64256, 64262>>,
     <<64275, 64279>>, <<64285, 64285>>, <<64287, 64296>>, <<64298, 64310>>,
     <<64312, 64316>>, <<64318, 64318>>, <<64320, 64321>>, <<64323, 64324>>,
     <<64326, 64433>>, <<64467, 64829>>, <<64848, 64911>>, <<64914, 64967>>,
     <<65008, 65019>>, <<65136, 65140>>, <<65142, 65276>>, <<65296, 65305>>,
     <<65313, 65338>>, <<65345, 65370>>, <<65382, 65470>>, <<65474, 65479>>,
     <<65482, 65487>>, <<65490, 65495>>, <<65498, 65500>>, <<65536, 65547>>,
     <<65549, 65574>>, <<65576, 65594>>, <<65596, 65597>>, <<65599, 65613>>,
     <<65616, 65629>>, <<65664, 65786>>, <<65799, 65843>>, <<65856, 65912>>,
     <<65930, 65931>>, <<66176, 66204>>, <<66208, 66256>>, <<66273, 66299>>,
     <<66304, 66339>>, <<66349, 66378>>, <<66384, 66421>>, <<66432, 66461>>,
     <<66464, 66499>>, <<66504, 66511>>, <<66513, 66517>>, <<66560, 66717>>,
     <<66720, 66729>>, <<66736, 66771>>, <<66776, 66811>>, <<66816, 66855>>,
     <<66864, 66915>>, <<66928, 66938>>, <<66940, 66954>>, <<66956, 66962>>,
     <<66964, 66965>>, <<66967, 66977>>, <<66979, 66993>>, <<66995, 67001>>,
     <<67003, 67004>>, <<67072, 67382>>, <<67392, 67413>>, <<67424, 67431>>,
     <<67456, 67461>>, <<67463, 67504>>, <<67506, 67514>>, <<67584, 67589>>,
     <<67592, 67592>>, <<67594, 67637>>, <<67639, 67640>>, <<67644, 67644>>,
     <<67647, 67669>>, <<67672, 67702>>, <<67705, 67742>>, <<67751, 67759>>,
     <<67808, 67826>>, <<67828, 67829>>, <<67835, 67867>>, <<67872, 67897>>,
     <<67968, 68023>>, <<68028, 68047>>, <<68050, 68096>>, <<68112, 68115>>,
     <<68117, 68119>>, <<68121, 68149>>, <<68160, 68168>>, <<68192, 68222>>,
     <<68224, 68255>>, <<68288, 68295>>, <<68297, 68324>>, <<68331, 68335>>,
     <<68352, 68405>>, <<68416, 68437>>, <<68440, 68466>>, <<68472, 68497>>,
     <<68521, 68527>>, <<68608, 68680>>, <<68736, 68786>>, <<68800, 68850>>,
     <<68858, 68899>>, <<68912, 68921>>, <<69216, 69246>>, <<69248, 69289>>,
     <<69296, 69297>>, <<69376, 69415>>, <<69424, 69445>>, <<69457, 69460>>,
     <<69488, 69505>>, <<69552, 69579>>, <<69600, 69622>>, <<69635, 69687>>,
     <<69714, 69743>>, <<69745, 69746>>, <<69749, 69749>>, <<69763, 69807>>,
     <<69840, 69864>>, <<69872, 69881>>, <<69891, 69926>>, <<69942, 69951>>,
     <<69956, 69956>>, <<69959, 69959>>, <<69968, 70002>>, <<70006, 70006>>,
     <<70019, 70066>>, <<70081, 70084>>, <<70096, 70106>>, <<70108, 70108>>,
     <<70113, 70132>>, <<70144, 70161>>, <<70163, 70187>>, <<70272, 70278>>,
     <<70280, 70280>>, <<70282, 70285>>, <<70287, 70301>>, <<70303, 70312>>,
     <<70320, 70366>>, <<70384, 70393>>, <<70405, 70412>>, <<70415, 70416>>,
     <<70419, 70440>>, <<70442, 70448>>, <<70450, 70451>>, <<70453, 70457>>,
     <<70461, 70461>>, <<70480, 70480>>, <<70493, 70497>>, <<70656, 70708>>,
     <<70727, 70730>>, <<70736, 70745>>, <<70751, 70753>>, <<70784, 70831>>,
     <<70852, 70853>>, <<70855, 70855>>, <<70864, 70873>>, <<71040, 71086>>,
     <<71128, 71131>>, <<71168, 71215>>, <<71236, 71236>>, <<71248, 71257>>,
     <<71296, 71338>>, <<71352, 71352>>, <<71360, 71369>>, <<71424, 71450>>,
     <<71472, 71483>>, <<71488, 71494>>, <<71680, 71723>>, <<71840, 71922>>,
     <<71935, 71942>>, <<71945, 71945>>, <<71948, 71955>>, <<71957, 71958>>,
     <<71960, 71983>>, <<71999, 71999>>, <<72001, 72001>>, <<72016, 72025>>,
     <<72096, 72103>>, <<72106, 72144>>, <<72161, 72161>>, <<72163, 72163>>,
     <<72192, 72192>>, <<72203, 72242>>, <<72250, 72250>>, <<72272, 72272>>,
     <<72284, 72329>>, <<72349, 72349>>, <<72368, 72440>>, <<72704, 72712>>,
     <<72714, 72750>>, <<72768, 72768>>, <<72784, 72812>>, <<72818, 72847>>,
     <<72960, 72966>>, <<72968, 72969>>, <<72971, 73008>>, <<73030, 73030>>,
     <<73040, 73049>>, <<73056, 73061>>, <<73063, 73064>>, <<73066, 73097>>,
     <<73112, 73112>>, <<73120, 73129>>, <<73440, 73458>>, <<73648, 73648>>,
     <<73664, 73684>>, <<73728, 74649>>, <<74752, 74862>>, <<74880, 75075>>,
     <<77712, 77808>>, <<77824, 78894>>, <<82944, 83526>>, <<92160, 92728>>,
     <<92736, 92766>>, <<92768, 92777>>, <<92784, 92862>>, <<92864, 92873>>,
     <<92880, 92909>>, <<92928, 92975>>, <<92992, 92995>>, <<93008, 93017>>,
     <<93019, 93025>>, <<93027, 93047>>, <<93053, 93071>>, <<93760, 93846>>,
     <<93952, 94026>>, <<94032, 94032>>, <<94099, 94111>>, <<94176, 94177>>,
     <<94179, 94179>>, <<94208, 100343>>, <<100352, 101589>>,
     <<101632, 101640>>, <<110576, 110579>>, <<110581, 110587>>,
     <<110589, 110590>>, <<110592, 110882>>, <<110928, 110930>>,
     <<110948, 110951>>, <<110960, 111355>>, <<113664, 113770>>,
     <<113776, 113788>>, <<113792, 113800>>, <<113808, 113817>>,
     <<119520, 119539>>, <<119648, 119672>>, <<119808, 119892>>,
     <<119894, 119964>>, <<119966, 119967>>, <<119970, 119970>>,
     <<119973, 119974>>, <<119977, 119980>>, <<119982, 119993>>,
     <<119995, 119995>>, <<119997, 120003>>, <<120005, 120069>>,
     <<120071, 120074>>, <<120077, 120084>>, <<120086, 120092>>,
     <<120094, 120121>>, <<120123, 120126>>, <<120128, 120132>>,
     <<120134, 120134>>, <<120138, 120144>>, <<120146, 120485>>,
     <<120488, 120512>>, <<120514, 120538>>, <<120540, 120570>>,
     <<120572, 120596>>, <<120598, 120628>>, <<120630, 120654>>,
     <<120656, 120686>>, <<120688, 120712>>, <<120714, 120744>>,
     <<120746, 120770>>, <<120772, 120779>>, <<120782, 120831>>,
     <<122624, 122654>>, <<123136, 123180>>, <<123191, 123197>>,
     <<123200, 123209>>, <<123214, 123214>>, <<123536, 123565>>,
     <<123584, 123627>>, <<123632, 123641>>, <<124896, 124902>>,
     <<124904, 124907>>, <<124909, 124910>>, <<124912, 124926>>,
     <<124928, 125124>>, <<125127, 125135>>, <<125184, 125251>>,
     <<125259, 125259>>, <<125264, 125273>>, <<126065, 126123>>,
     <<126125, 126127>>, <<126129, 126132>>, <<126209, 126253>>,
     <<126255, 126269>>, <<126464, 126467>>, <<126469, 126495>>,
     <<126497, 126498>>, <<126500, 126500>>, <<126503, 126503>>,
     <<126505, 126514>>, <<126516, 126519>>, <<126521, 126521>>,
     <<126523, 126523>>, <<126530, 126530>>, <<126535, 126535>>,
     <<126537, 126537>>, <<126539, 126539>>, <<126541, 126543>>,
     <<126545, 126546>>, <<126548, 126548>>, <<126551, 126551>>,
     <<126553, 126553>>, <<126555, 126555>>, <<126557, 126557>>,
     <<126559, 126559>>, <<126561, 126562>>, <<126564, 126564>>,
     <<126567, 126570>>, <<126572, 126578>>, <<126580, 126583>>,
     <<126585, 126588>>, <<126590, 126590>>, <<126592, 126601>>,
     <<126603, 126619>>, <<126625, 126627>>, <<126629, 126633>>,
     <<126635, 126651>>, <<127232, 127244>>, <<130032, 130041>>,
     <<131072, 173791>>, <<173824, 177976>>, <<177984, 178205>>,
     <<178208, 183969>>, <<183984, 191456>>, <<194560, 195101>>,
     <<196608, 201546>>}

\* ch.isalnum()
IsAlnum(c) ==
    IF c <= 127 THEN (48 <= c /\ c <= 57) \/ IsAsciiLetter(c)
    ELSE \E r \in ALNUM_RANGES : r[1] <= c /\ c <= r[2]

_count_word_like(txt) ==
    Cardinality({i \in 1..Len(txt) :
                   ~IsSpace(txt[i]) /\ (IsAlnum(txt[i]) \/ IsCJK(txt[i]))})

-----------------------------------------------------------------------------
(* app/services/metadata.py: decoding of the uploaded bytes                *)

Failed == [ok |-> FALSE, text |-> <<>>]

Decoded(t) == [ok |-> TRUE, text |-> t]

\* EF BB BF
UTF8_BOM == <<239, 187, 191>>

IsCont(b) == 128 <= b /\ b <= 191

\* bytes.decode("utf-8") of b from byte first on, strict: every byte that is
\* not a continuation byte opens a well-formed sequence (shortest form, no
\* surrogate, nothing above U+10FFFF) and every continuation byte belongs
\* to the sequence opened before it
utf_8_from(b, first) ==
    LET n == Len(b)
        SeqLen(i) ==
            IF b[i] < 128 THEN 1
            ELSE IF 194 <= b[i] /\ b[i] <= 223 THEN 2
            ELSE IF 224 <= b[i] /\ b[i] <= 239 THEN 3
            ELSE IF 240 <= b[i] /\ b[i] <= 244 THEN 4
            ELSE 0
        WellFormed(i) ==
            /\ SeqLen(i) > 0
            /\ i + SeqLen(i) - 1 <= n
            /\ \A j \in 1..(SeqLen(i) - 1) : IsCont(b[i + j])
            /\ (b[i] = 224 => b[i + 1] >= 160)
            /\ (b[i] = 237 => b[i + 1] <= 159)
            /\ (b[i] = 240 => b[i + 1] >= 144)
            /\ (b[i] = 244 => b[i + 1] <= 143)
        Owned(i) ==
            \E k \in 1..3 :
                /\ i - k >= first
                /\ ~IsCont(b[i - k])
                /\ \A j \in 1..(k - 1) : IsCont(b[i - j])
                /\ SeqLen(i - k) > k
        valid == \A i \in first..n : IF IsCont(b[i]) THEN Owned(i) ELSE WellFormed(i)
        leads == SelectSeq(Indices(n), LAMBDA i : i >= first /\ ~IsCont(b[i]))
        Char(i) ==
            IF SeqLen(i) = 1 THEN b[i]
            ELSE IF SeqLen(i) = 2 THEN (b[i] - 192) * 64 + (b[i + 1] - 128)
            ELSE IF SeqLen(i) = 3
            THEN (b[i] - 224) * 4096 + (b[i + 1] - 128) * 64 + (b[i + 2] - 128)
            ELSE (b[i] - 240) * 262144 + (b[i + 1] - 128) * 4096
                     + (b[i + 2] - 128) * 64 + (b[i + 3] - 128)
    IN  IF valid THEN Decoded([k \in 1..Len(leads) |-> Char(leads[k])])
        ELSE Failed

decode_utf_8(b) == utf_8_from(b, 1)

\* "utf-8-sig": one leading byte order mark is dropped
decode_utf_8_sig(b) ==
    IF Len(b) >= 3 /\ SubSeq(b, 1, 3) = UTF8_BOM
    THEN utf_8_from(b, 4)
    ELSE utf_8_from(b, 1)

IsHighSurrogate(u) == 55296 <= u /\ u <= 56319

IsLowSurrogate(u) == 56320 <= u /\ u <= 57343

\* the 16-bit units of b from byte first on, in the given byte order; an odd
\* number of bytes and an unpaired surrogate are errors
utf_16_from(b, first, little) ==
    LET n == Len(b)
        count == (n - first + 1) \div 2
        Unit(k) ==
            LET p == first + 2 * (k - 1)
            IN  IF little THEN b[p] + 256 * b[p + 1] ELSE 256 * b[p] + b[p + 1]
        paired ==
            \A k \in 1..count :
                /\ IsHighSurrogate(Unit(k))
                       => (k < count /\ IsLowSurrogate(Unit(k + 1)))
                /\ IsLowSurrogate(Unit(k))
                       => (k > 1 /\ IsHighSurrogate(Unit(k - 1)))
        heads == SelectSeq(Indices(count), LAMBDA k : ~IsLowSurrogate(Unit(k)))
        Char(k) ==
            IF IsHighSurrogate(Unit(k))
            THEN 65536 + (Unit(k) - 55296) * 1024 + (Unit(k + 1) - 56320)
            ELSE Unit(k)
    IN  IF (n - first + 1) % 2 = 1 \/ ~paired THEN Failed
        ELSE Decoded([j \in 1..Len(heads) |-> Char(heads[j])])

decode_utf_16_le(b) == utf_16_from(b, 1, TRUE)

decode_utf_16_be(b) == utf_16_from(b, 1, FALSE)

\* "utf-16": a leading FF FE or FE FF selects the byte order and is dropped;
\* without one the order is that of the machine (little-endian)
decode_utf_16(b) ==
    IF Len(b) >= 2 /\ SubSeq(b, 1, 2) = <<255, 254>>
    THEN utf_16_from(b, 3, TRUE)
    ELSE IF Len(b) >= 2 /\ SubSeq(b, 1, 2) = <<254, 255>>
    THEN utf_16_from(b, 3, FALSE)
    ELSE utf_16_from(b, 1, TRUE)

\* the two-byte codes of gb18030 over the bytes the uploads of the codec
\* driver are made of, as <<lead byte, trail byte, code point>>; any other
\* two-byte or four-byte code is outside this model and is rejected
GB18030_PAIRS ==
    {
     <<137, 137, 22680>>, <<137, 145, 22692>>, <<137, 163, 22712>>,
     <<137, 187, 22740>>, <<137, 189, 22743>>, <<137, 191, 22745>>,
     <<137, 216, 22778>>, <<137, 229, 22794>>, <<137, 239, 22811>>,
     <<137, 254, 22843>>, <<145, 137, 24992>>, <<145, 145, 25003>>,
     <<145, 163, 25024>>, <<145, 187, 25055>>, <<145, 189, 25057>>,
     <<145, 191, 25059>>, <<145, 216, 25086>>, <<145, 229, 25117>>,
     <<145, 239, 25135>>, <<145, 254, 25162>>, <<163, 137, 58830>>,
     <<163, 145, 58838>>, <<163, 163, 65283>>, <<163, 187, 65307>>,
     <<163, 189, 65309>>, <<163, 191, 65311>>, <<163, 216, 65336>>,
     <<163, 229, 65349>>, <<163, 239, 65359>>, <<163, 254, 65507>>,
     <<187, 137, 31892>>, <<187, 145, 31910>>, <<187, 163, 21804>>,
     <<187, 187, 25442>>, <<187, 189, 21796>>, <<187, 191, 35938>>,
     <<187, 216, 22238>>, <<187, 229, 35826>>, <<187, 239, 20249>>,
     <<187, 254, 31637>>, <<189, 137, 32129>>, <<189, 145, 32137>>,
     <<189, 163, 21073>>, <<189, 187, 20132>>, <<189, 189, 27975>>,
     <<189, 191, 23047>>, <<189, 216, 25130>>, <<189, 229, 34249>>,
     <<189, 239, 26020>>, <<189, 254, 28024>>, <<191, 137, 32325>>,
     <<191, 145, 32334>>, <<191, 163, 27994>>, <<191, 187, 28821>>,
     <<191, 189, 25335>>, <<191, 191, 38752>>, <<191, 216, 25511>>,
     <<191, 229, 22446>>, <<191, 239, 21281>>, <<191, 254, 20608>>,
     <<216, 137, 35989>>, <<216, 145, 35998>>, <<216, 163, 20800>>,
     <<216, 187, 40727>>, <<216, 189, 20127>>, <<216, 191, 20060>>,
     <<216, 216, 21006>>, <<216, 229, 21136>>, <<216, 239, 20203>>,
     <<216, 254, 20317>>, <<229, 137, 37715>>, <<229, 145, 37723>>,
     <<229, 163, 28601>>, <<229, 187, 23524>>, <<229, 189, 35120>>,
     <<229, 191, 36423>>, <<229, 216, 36945>>, <<229, 229, 37003>>,
     <<229, 239, 23651>>, <<229, 254, 22947>>, <<239, 137, 39152>>,
     <<239, 145, 39160>>, <<239, 163, 38126>>, <<239, 187, 38168>>,
     <<239, 189, 38173>>, <<239, 191, 38175>>, <<239, 216, 38227>>,
     <<239, 229, 38245>>, <<239, 239, 38258>>, <<239, 254, 31252>>,
     <<254, 137, 18819>>, <<254, 145, 59477>>, <<254, 163, 58474>>,
     <<254, 187, 58498>>, <<254, 189, 58500>>, <<254, 191, 58502>>,
     <<254, 216, 58527>>, <<254, 229, 58540>>, <<254, 239, 58550>>,
     <<254, 254, 58565>>}

\* the codes among them that the gbk codec does not have
GBK_ABSENT ==
    {
     <<163, 137>>, <<163, 145>>, <<254, 137>>, <<254, 145>>, <<254, 163>>,
     <<254, 187>>, <<254, 189>>, <<254, 191>>, <<254, 216>>, <<254, 229>>,
     <<254, 239>>, <<254, 254>>}

\* "gb18030" (absent = {}) and "gbk" (absent = GBK_ABSENT): a byte below 80
\* is its own code point, a byte from 81 to FE leads a two-byte code, 80 and
\* FF are errors.  A run of bytes >= 80 starts at a character, so its bytes
\* at even offsets lead and a byte after a lead byte trails.
decode_gb(b, absent) ==
    LET n == Len(b)
        High(i) == b[i] >= 128
        RunStart(i) == 1 + SetMax({j \in 0..(i - 1) : j = 0 \/ ~High(j)})
        IsLead(i) == High(i) /\ (i - RunStart(i)) % 2 = 0
        Codes(i) ==
            {e \in GB18030_PAIRS :
                e[1] = b[i] /\ e[2] = b[i + 1] /\ <<e[1], e[2]>> \notin absent}
        valid == \A i \in 1..n : IsLead(i) => (i < n /\ Codes(i) # {})
        heads == SelectSeq(Indices(n), LAMBDA i : i = 1 \/ ~IsLead(i - 1))
        Char(i) == IF High(i) THEN (CHOOSE e \in Codes(i) : TRUE)[3] ELSE b[i]
    IN  IF valid THEN Decoded([k \in 1..Len(heads) |-> Char(heads[k])])
        ELSE Failed

decode_gb18030(b) == decode_gb(b, {})

decode_gbk(b) == decode_gb(b, GBK_ABSENT)

\* bytes.decode("latin1", errors="replace"): every byte is its code point
decode_latin1(b) == b

\* decode_upload trying utf-16 before utf-8-sig
decode_upload_utf16_first(b) ==
    With(decode_utf_16(b), LAMBDA t3 :
    IF t3.ok THEN [codec |-> 3, text |-> t3.text] ELSE
    With(decode_utf_8_sig(b), LAMBDA t1 :
    IF t1.ok THEN [codec |-> 1, text |-> t1.text] ELSE
    With(decode_utf_8(b), LAMBDA t2 :
    IF t2.ok THEN [codec |-> 2, text |-> t2.text] ELSE
    With(decode_utf_16_le(b), LAMBDA t4 :
    IF t4.ok THEN [codec |-> 4, text |-> t4.text] ELSE
    With(decode_utf_16_be(b), LAMBDA t5 :
    IF t5.ok THEN [codec |-> 5, text |-> t5.text] ELSE
    With(decode_gb18030(b), LAMBDA t6 :
    IF t6.ok THEN [codec |-> 6, text |-> t6.text] ELSE
    With(decode_gbk(b), LAMBDA t7 :
    IF t7.ok THEN [codec |-> 7, text |-> t7.text]
    ELSE [codec |-> 8, text |-> decode_latin1(b)])))))))

\* the text of lines 123-131: the codecs are tried in order and the first
\* that decodes the bytes gives the text, then no other is tried; latin1 if
\* none does.  With the index of the codec used (8 for latin1).
decode_upload(b) ==
    With(decode_utf_8_sig(b), LAMBDA t1 :
    IF t1.ok THEN [codec |-> 1, text |-> t1.text] ELSE
    With(decode_utf_8(b), LAMBDA t2 :
    IF t2.ok THEN [codec |-> 2, text |-> t2.text] ELSE
    With(decode_utf_16(b), LAMBDA t3 :
    IF t3.ok THEN [codec |-> 3, text |-> t3.text] ELSE
    With(decode_utf_16_le(b), LAMBDA t4 :
    IF t4.ok THEN [codec |-> 4, text |-> t4.text] ELSE
    With(decode_utf_16_be(b), LAMBDA t5 :
    IF t5.ok THEN [codec |-> 5, text |-> t5.text] ELSE
    With(decode_gb18030(b), LAMBDA t6 :
    IF t6.ok THEN [codec |-> 6, text |-> t6.text] ELSE
    With(decode_gbk(b), LAMBDA t7 :
    IF t7.ok THEN [codec |-> 7, text |-> t7.text]
    ELSE [codec |-> 8, text |-> decode_latin1(b)])))))))

-----------------------------------------------------------------------------
(* app/services/metadata.py: extract_upload_metadata                       *)

\* txt
EXT_TXT == <<116, 120, 116>>

\* the local values of one extract_upload_metadata call and the fields of
\* the UploadMetadata it returns (description None is <<>>, a value <<v>>)
extract_upload_metadata_locals(name, ext, bytes) ==
    With(parse_title_author_from_filename(name), LAMBDA base :
    With(Lower(ext) = EXT_TXT /\ bytes # <<>>, LAMBDA reads :
    With(IF reads THEN decode_upload(bytes) ELSE [codec |-> 0, text |-> <<>>],
         LAMBDA dec :
    With(dec.text, LAMBDA txt :
    With(_extract_txt_front_matter(txt), LAMBDA fm :
    LET title0 == IF reads /\ fm.title # <<>> /\ fm.title[1] # <<>>
                  THEN fm.title[1] ELSE base.title
        author0 == IF reads /\ fm.author # <<>> /\ fm.author[1] # <<>>
                   THEN fm.author[1] ELSE base.author
    IN  With(IF reads THEN fm.tags ELSE <<>>, LAMBDA tags0 :
        [name |-> base,
         read |-> reads,
         codec |-> dec.codec,
         text |-> txt,
         fm |-> fm,
         title |-> _clean_title(title0),
         author |-> _clean_author(author0),
         tags |-> Take(Dedupe(SelectSeq(
                           [k \in 1..Len(tags0) |-> meta_normalize_tag(tags0[k])],
                           LAMBDA t : t # <<>>)),
                       TAGS_CAP),
         word_count |-> IF reads THEN _count_word_like(txt) ELSE 0,
         description |-> IF reads /\ fm.description # <<>> /\ fm.description[1] # <<>>
                         THEN fm.description ELSE <<>>]))))))

\* the UploadMetadata returned
extract_upload_metadata(name, ext, bytes) ==
    With(extract_upload_metadata_locals(name, ext, bytes), LAMBDA r :
    [title |-> r.title, author |-> r.author, tags |-> r.tags,
     word_count |-> r.word_count, description |-> r.description])

-----------------------------------------------------------------------------
(* Driver of the normalizers: a string is typed character by character,    *)
(* then one normalizer is applied to it and again to its own result.       *)

MaxArgLen == 4

LETTER_A == 97

NormAlphabet == {HASH, SPACE, IDEOSPACE, ZWSP, DQUOTE, LETTER_A}

\* a run longer than the cap of 20
LongRun == [i \in 1..(TAG_CAP + 1) |-> LETTER_A]

NormInit ==
    /\ pc = "input"
    /\ written = 0
    /\ NormIdle
    /\ UploadIdle
    /\ title = <<>>
    /\ text = <<>>
    /\ SampleIdle
    /\ TagIdle
    /\ MetaIdle

TypeChar ==
    /\ pc = "input"
    /\ Len(arg) < MaxArgLen
    /\ \E c \in NormAlphabet : arg' = Append(arg, c)
    /\ UNCHANGED <<pc, res>>

TypeLongRun ==
    /\ pc = "input"
    /\ Len(arg) < MaxArgLen
    /\ arg' = arg \o LongRun
    /\ UNCHANGED <<pc, res>>

MetaNormalize ==
    /\ pc = "input"
    /\ res' = <<meta_normalize_tag(arg)>>
    /\ pc' = "meta"
    /\ UNCHANGED arg

MetaNormalizeAgain ==
    /\ pc = "meta"
    /\ Len(res) = 1
    /\ res' = Append(res, meta_normalize_tag(res[1]))
    /\ UNCHANGED <<pc, arg>>

AutoNormalize ==
    /\ pc = "input"
    /\ res' = <<auto_normalize_tag(arg)>>
    /\ pc' = "auto"
    /\ UNCHANGED arg

AutoNormalizeAgain ==
    /\ pc = "auto"
    /\ Len(res) = 1
    /\ res' = Append(res, auto_normalize_tag(res[1]))
    /\ UNCHANGED <<pc, arg>>

NormStep ==
    \/ TypeChar
    \/ TypeLongRun
    \/ MetaNormalize
    \/ MetaNormalizeAgain
    \/ AutoNormalize
    \/ AutoNormalizeAgain

NormNext ==
    NormStep
        /\ UNCHANGED <<uploadVars, written, title, text, sampleVars, tagVars,
                       metaVars>>

SpecNorm == NormInit /\ [][NormNext]_vars

-----------------------------------------------------------------------------
(* Driver of the sampler: the arguments are drawn at the start, then       *)
(* sample_segments or sample_text is called once on them.                  *)

MaxSmallLen == 4

MaxSegments == 3

LETTER_T == 116

\* the text of n characters abcd...zabc...
FillerText(n) == [i \in 1..n |-> LETTER_A + ((i - 1) % 26)]

SampleTitles == {<<>>, <<LETTER_T>>, <<SPACE, LETTER_T, LETTER_T, SPACE>>}

\* text lengths around the minimum segment length and around 1, 2 and 3
\* segments of it
SampleLens ==
    (0..MaxSmallLen)
        \cup {k * MIN_SEG_LEN + d : k \in 1..3, d \in {-1, 0, 1, 7}}

SampleBudgets ==
    {-1, 0, 1, 2, 3, 5}
        \cup {k * MIN_SEG_LEN + d : k \in 1..3, d \in {0, 2, 5}}

SegmentsInit ==
    /\ pc = "segments_input"
    /\ title = <<>>
    /\ budget = 0
    /\ out = <<>>
    /\ \E n \in 0..MaxSmallLen : text = FillerText(n)
    /\ segment_len \in (-1)..(MaxSmallLen + 1)
    /\ segments \in 0..MaxSegments

TextInit ==
    /\ pc = "text_input"
    /\ segment_len = 0
    /\ out = <<>>
    /\ title \in SampleTitles
    /\ \E n \in SampleLens : text = FillerText(n)
    /\ budget \in SampleBudgets
    /\ segments \in 0..MaxSegments

SampleInit ==
    /\ written = 0
    /\ NormIdle
    /\ UploadIdle
    /\ TagIdle
    /\ MetaIdle
    /\ (SegmentsInit \/ TextInit)

CallSampleSegments ==
    /\ pc = "segments_input"
    /\ out' = sample_segments(text, segment_len, segments)
    /\ pc' = "segments_done"
    /\ UNCHANGED <<title, text, budget, segment_len, segments>>

CallSampleText ==
    /\ pc = "text_input"
    /\ out' = sample_text(title, text, budget, segments)
    /\ pc' = "text_done"
    /\ UNCHANGED <<title, text, budget, segment_len, segments>>

SampleNext ==
    \/ CallSampleSegments /\ UNCHANGED <<uploadVars, written, normVars, tagVars, metaVars>>
    \/ CallSampleText /\ UNCHANGED <<uploadVars, written, normVars, tagVars, metaVars>>

SpecSample == SampleInit /\ [][SampleNext]_vars

-----------------------------------------------------------------------------
(* Driver of generate_tags: a title and a limit are drawn, the text is     *)
(* written phrase by phrase, then generate_tags is called; the process may *)
(* be restarted (a new hash seed) and the call made again on the same      *)
(* arguments.                                                              *)

MaxChunks == 2

\* 修仙，金丹，元婴，渡劫。
P_XIANXIA ==
    <<20462, 20185, 65292, 37329, 20025, 65292, 20803, 23156, 65292,
      28193, 21163, 12290>>

\* 后宫全收。
P_ADULT == <<21518, 23467, 20840, 25910, 12290>>

\* 江湖门派掌门。
P_WUXIA == <<27743, 28246, 38376, 27966, 25484, 38376, 12290>>

\* 林动，
P_NAME == <<26519, 21160, 65292>>

\* #"Abcd" efgh<space>
P_EN == <<35, 34, 65, 98, 99, 100, 34, 32, 101, 102, 103, 104, 32>>

\* 天地玄黄，日月盈昃。
P_KEYWORDS ==
    <<22825, 22320, 29572, 40644, 65292, 26085, 26376, 30408, 26115, 12290>>

Repeat(p, k) == [i \in 1..(k * Len(p)) |-> p[((i - 1) % Len(p)) + 1]]

\* 萧炎， eight times, then 90 full stops: a name crowded into the first
\* sixth of a passage of 114 characters
P_CROWD == Repeat(<<33831, 28814, 65292>>, 8) \o Repeat(<<12290>>, 90)

\* (phrase, repetitions) a writer may append
Chunks ==
    {<<P_XIANXIA, 6>>, <<P_ADULT, 1>>, <<P_WUXIA, 1>>, <<P_NAME, 6>>,
     <<P_KEYWORDS, 6>>, <<P_EN, 1>>, <<P_CROWD, 1>>}

\* "", 仙侠, 甲乙丙丁戊 (9 title windows), 甲乙丙丁戊己 (more than 10)
TagTitles ==
    {<<>>,
     <<20185, 20384>>,
     <<30002, 20057, 19993, 19969, 25098>>,
     <<30002, 20057, 19993, 19969, 25098, 24049>>}

DEFAULT_LIMIT == 10

\* none, a limit between the five distinct tags and the six tags with a
\* duplicate that the first four sources supply over P_XIANXIA, the default
TagLimits == {0, 6, DEFAULT_LIMIT}

\* two interpreter processes whose sets iterate in opposite orders
Seeds == {0, 1}

TagInit ==
    /\ pc = "input"
    /\ NormIdle
    /\ UploadIdle
    /\ SampleIdle
    /\ MetaIdle
    /\ title \in TagTitles
    /\ text = <<>>
    /\ limit \in TagLimits
    /\ hash_seed \in Seeds
    /\ runs = <<>>
    /\ name_counter = <<>>
    /\ written = 0

WriteChunk ==
    /\ pc = "input"
    /\ written < MaxChunks
    /\ \E c \in Chunks : text' = text \o Repeat(c[1], c[2])
    /\ written' = written + 1
    /\ UNCHANGED <<pc, title, limit, hash_seed, runs, name_counter>>

Generate ==
    /\ pc = "input"
    /\ runs' = Append(runs, generate_tags_locals(title, text, limit)
                                @@ [seed |-> hash_seed])
    /\ pc' = "run1"
    /\ UNCHANGED <<title, text, limit, hash_seed, written, name_counter>>

Restart ==
    /\ pc = "run1"
    /\ hash_seed' \in Seeds
    /\ pc' = "restarted"
    /\ UNCHANGED <<title, text, limit, runs, written, name_counter>>

GenerateAgain ==
    /\ pc = "restarted"
    /\ runs' = Append(runs, generate_tags_locals(title, text, limit)
                                @@ [seed |-> hash_seed])
    /\ pc' = "run2"
    /\ UNCHANGED <<title, text, limit, hash_seed, written, name_counter>>

TagNext ==
    \/ WriteChunk /\ UNCHANGED <<uploadVars, normVars, sampleVars, metaVars>>
    \/ Generate /\ UNCHANGED <<uploadVars, normVars, sampleVars, metaVars>>
    \/ Restart /\ UNCHANGED <<uploadVars, normVars, sampleVars, metaVars>>
    \/ GenerateAgain /\ UNCHANGED <<uploadVars, normVars, sampleVars, metaVars>>

Spec == TagInit /\ [][TagNext]_vars

-----------------------------------------------------------------------------
(* Driver of extract_upload_metadata: a file name and an extension are     *)
(* drawn, the file is written piece by piece (lines of UTF-8 text, a byte  *)
(* order mark, a byte that is not UTF-8), then extract_upload_metadata is  *)
(* called on it, and called again on the same arguments.                   *)

MaxLines == 2

\* (the empty name)
N_EMPTY ==
    <<>>

\* 《剑来》作者：烽火.txt
N_BOOK ==
    <<12298, 21073, 26469, 12299, 20316, 32773, 65306, 28925, 28779, 46, 116,
      120, 116>>

\* 剑来（精校）-烽火.txt
N_DASH ==
    <<21073, 26469, 65288, 31934, 26657, 65289, 45, 28925, 28779, 46, 116,
      120, 116>>

\* 【完本】（全）.txt
N_BRACKETS ==
    <<12304, 23436, 26412, 12305, 65288, 20840, 65289, 46, 116, 120, 116>>

\* <U+200B> .txt
N_BLANK ==
    <<8203, 32, 46, 116, 120, 116>>

\* 剑来 - 烽火戏诸侯.txt
N_SPACED ==
    <<21073, 26469, 32, 45, 32, 28925, 28779, 25103, 35832, 20399, 46, 116,
      120, 116>>

\* 《剑-来》 烽火.txt
N_BOOK_DASH ==
    <<12298, 21073, 45, 26469, 12299, 32, 28925, 28779, 46, 116, 120, 116>>

\* 剑来_烽火-全.txt
N_TWO_SEPARATORS ==
    <<21073, 26469, 95, 28925, 28779, 45, 20840, 46, 116, 120, 116>>

\* 剑来.txt
N_PLAIN ==
    <<21073, 26469, 46, 116, 120, 116>>

\* 剑来-作者:作者：烽火.txt
N_LABELS ==
    <<21073, 26469, 45, 20316, 32773, 58, 20316, 32773, 65306, 28925, 28779,
      46, 116, 120, 116>>

MetaNames ==
    {N_EMPTY, N_BOOK, N_DASH, N_BRACKETS, N_BLANK,
     N_SPACED, N_BOOK_DASH, N_TWO_SEPARATORS, N_PLAIN, N_LABELS}

\* TXT
X_TXT_UPPER == <<84, 88, 84>>

\* epub
X_EPUB == <<101, 112, 117, 98>>

MetaExts == {X_TXT_UPPER, X_EPUB}

\* 书名：剑来（全本）\n  (UTF-8)
L_TITLE ==
    <<228, 185, 166, 229, 144, 141, 239, 188, 154, 229, 137, 145, 230, 157,
      165, 239, 188, 136, 229, 133, 168, 230, 156, 172, 239, 188, 137, 10>>

\* 书名:\n  (UTF-8)
L_TITLE_EMPTY ==
    <<228, 185, 166, 229, 144, 141, 58, 10>>

\* 【作者】: 作者：烽火\r\n  (UTF-8)
L_AUTHOR ==
    <<227, 128, 144, 228, 189, 156, 232, 128, 133, 227, 128, 145, 58, 32,
      228, 189, 156, 232, 128, 133, 239, 188, 154, 231, 131, 189, 231, 129,
      171, 13, 10>>

\* 作者：\n  (UTF-8)
L_AUTHOR_EMPTY ==
    <<228, 189, 156, 232, 128, 133, 239, 188, 154, 10>>

\* 标签: 玄幻 #热血,玄幻\n  (UTF-8)
L_TAGS ==
    <<230, 160, 135, 231, 173, 190, 58, 32, 231, 142, 132, 229, 185, 187, 32,
      35, 231, 131, 173, 232, 161, 128, 44, 231, 142, 132, 229, 185, 187,
      10>>

\* - Tags: aaaaaaaaaaaaaaaaaaaaa/#<U+3000>#x\n  (UTF-8)
L_TAGS_LONG ==
    <<45, 32, 84, 97, 103, 115, 58, 32, 97, 97, 97, 97, 97, 97, 97, 97, 97,
      97, 97, 97, 97, 97, 97, 97, 97, 97, 97, 97, 97, 47, 35, 227, 128, 128,
      35, 120, 10>>

\* 分类:A,B,C,D,E,F,G,H,I,J,K,L,M,N,O,P,Q,R,S,T,U,V,W,X,Y,Z,a,b,c,d,e\n  (UTF-8)
L_TAGS_MANY ==
    <<229, 136, 134, 231, 177, 187, 58, 65, 44, 66, 44, 67, 44, 68, 44, 69,
      44, 70, 44, 71, 44, 72, 44, 73, 44, 74, 44, 75, 44, 76, 44, 77, 44, 78,
      44, 79, 44, 80, 44, 81, 44, 82, 44, 83, 44, 84, 44, 85, 44, 86, 44, 87,
      44, 88, 44, 89, 44, 90, 44, 97, 44, 98, 44, 99, 44, 100, 44, 101, 10>>

\* 简介：少年\n  (UTF-8)
L_DESC ==
    <<231, 174, 128, 228, 187, 139, 239, 188, 154, 229, 176, 145, 229, 185,
      180, 10>>

\* a byte that no UTF-8 text holds
L_BAD == <<255>>

MetaPieces ==
    {L_TITLE, L_TITLE_EMPTY, L_AUTHOR, L_AUTHOR_EMPTY,
     L_TAGS, L_TAGS_LONG, L_TAGS_MANY, L_DESC, UTF8_BOM, L_BAD}

MetaInit ==
    /\ pc = "upload"
    /\ written = 0
    /\ NormIdle
    /\ UploadIdle
    /\ SampleIdle
    /\ TagIdle
    /\ title = <<>>
    /\ text = <<>>
    /\ file_name \in MetaNames
    /\ file_ext \in MetaExts
    /\ file_bytes = <<>>
    /\ metas = <<>>

WritePiece ==
    /\ pc = "upload"
    /\ written < MaxLines
    /\ \E p \in MetaPieces : file_bytes' = file_bytes \o p
    /\ written' = written + 1
    /\ UNCHANGED <<pc, file_name, file_ext, metas>>

Extract ==
    /\ pc = "upload"
    /\ metas' = <<extract_upload_metadata_locals(file_name, file_ext, file_bytes)>>
    /\ pc' = "extracted"
    /\ UNCHANGED <<written, file_name, file_ext, file_bytes>>

ExtractAgain ==
    /\ pc = "extracted"
    /\ metas' = Append(metas,
                       extract_upload_metadata_locals(file_name, file_ext, file_bytes))
    /\ pc' = "extracted_again"
    /\ UNCHANGED <<written, file_name, file_ext, file_bytes>>

MetaNext ==
    \/ WritePiece /\ UNCHANGED <<uploadVars, normVars, title, text, sampleVars, tagVars>>
    \/ Extract /\ UNCHANGED <<uploadVars, normVars, title, text, sampleVars, tagVars>>
    \/ ExtractAgain /\ UNCHANGED <<uploadVars, normVars, title, text, sampleVars, tagVars>>

SpecMeta == MetaInit /\ [][MetaNext]_vars

-----------------------------------------------------------------------------
(* Driver of the front matter: a txt file named after a book, or without   *)
(* name, is written line by line from field lines under several aliases,   *)
(* with and without bullets and label brackets, then                       *)
(* extract_upload_metadata is called on it.                                *)

\* - [Title]: 雪中\n  (UTF-8)
L_TITLE_BULLET ==
    <<45, 32, 91, 84, 105, 116, 108, 101, 93, 58, 32, 233, 155, 170, 228, 184,
      173, 10>>

\* * author：总管\n  (UTF-8)
L_AUTHOR_ALIAS ==
    <<42, 32, 97, 117, 116, 104, 111, 114, 239, 188, 154, 230, 128, 187, 231,
      174, 161, 10>>

\* • 【Description】：江湖\n  (UTF-8)
L_DESC_BULLET ==
    <<226, 128, 162, 32, 227, 128, 144, 68, 101, 115, 99, 114, 105, 112, 116,
      105, 111, 110, 227, 128, 145, 239, 188, 154, 230, 177, 159, 230, 185,
      150, 10>>

\* 简介:\n  (UTF-8)
L_DESC_EMPTY ==
    <<231, 174, 128, 228, 187, 139, 58, 10>>

\* 主角: 徐凤年/姜泥、热血\n  (UTF-8)
L_CAST ==
    <<228, 184, 187, 232, 167, 146, 58, 32, 229, 190, 144, 229, 135, 164, 229,
      185, 180, 47, 229, 167, 156, 230, 179, 165, 227, 128, 129, 231, 131,
      173, 232, 161, 128, 10>>

\* 第一章 少年\n  (UTF-8)
L_BODY ==
    <<231, 172, 172, 228, 184, 128, 231, 171, 160, 32, 229, 176, 145, 229,
      185, 180, 10>>

\* 标签: #<U+3000>#x x\n  (UTF-8)
L_TAGS_HASH ==
    <<230, 160, 135, 231, 173, 190, 58, 32, 35, 227, 128, 128, 35, 120, 32,
      120, 10>>

FrontNames == {N_BOOK, N_EMPTY}

FrontPieces ==
    {L_TITLE, L_TITLE_BULLET, L_TITLE_EMPTY, L_AUTHOR, L_AUTHOR_ALIAS,
     L_AUTHOR_EMPTY, L_DESC, L_DESC_BULLET, L_DESC_EMPTY, L_TAGS, L_CAST,
     L_TAGS_MANY, L_TAGS_HASH, L_BODY}

FrontInit ==
    /\ pc = "upload"
    /\ written = 0
    /\ NormIdle
    /\ UploadIdle
    /\ SampleIdle
    /\ TagIdle
    /\ title = <<>>
    /\ text = <<>>
    /\ file_name \in FrontNames
    /\ file_ext = X_TXT_UPPER
    /\ file_bytes = <<>>
    /\ metas = <<>>

WriteLine ==
    /\ pc = "upload"
    /\ written < MaxLines
    /\ \E p \in FrontPieces : file_bytes' = file_bytes \o p
    /\ written' = written + 1
    /\ UNCHANGED <<pc, file_name, file_ext, metas>>

FrontNext ==
    \/ WriteLine /\ UNCHANGED <<uploadVars, normVars, title, text, sampleVars, tagVars>>
    \/ Extract /\ UNCHANGED <<uploadVars, normVars, title, text, sampleVars, tagVars>>

SpecFront == FrontInit /\ [][FrontNext]_vars

-----------------------------------------------------------------------------
(* Driver of the codec chain: a txt file is written from short byte        *)
(* strings (UTF-8 with and without byte order mark, UTF-16 byte order      *)
(* marks, lone surrogates in either byte order, a GBK character, a line    *)
(* feed, the byte FF), then extract_upload_metadata is called on it.       *)

\* a line feed
B_NL == <<10>>

\* 剑 in UTF-8
B_UTF8 == <<229, 137, 145>>

\* the UTF-16 byte order marks
B_BOM_LE == <<255, 254>>

B_BOM_BE == <<254, 255>>

\* the unit D800, a high surrogate, little-endian and big-endian
B_HIGH_LE == <<0, 216>>

B_HIGH_BE == <<216, 0>>

\* 剑 in GBK
B_GBK == <<189, 163>>

CodecPieces ==
    {B_NL, B_UTF8, UTF8_BOM, B_BOM_LE, B_BOM_BE, B_HIGH_LE, B_HIGH_BE, B_GBK,
     L_BAD}

CodecInit ==
    /\ pc = "upload"
    /\ written = 0
    /\ NormIdle
    /\ UploadIdle
    /\ SampleIdle
    /\ TagIdle
    /\ title = <<>>
    /\ text = <<>>
    /\ file_name = N_PLAIN
    /\ file_ext \in {EXT_TXT, X_TXT_UPPER}
    /\ file_bytes = <<>>
    /\ metas = <<>>

WriteBytes ==
    /\ pc = "upload"
    /\ written < MaxLines
    /\ \E p \in CodecPieces : file_bytes' = file_bytes \o p
    /\ written' = written + 1
    /\ UNCHANGED <<pc, file_name, file_ext, metas>>

CodecNext ==
    \/ WriteBytes /\ UNCHANGED <<uploadVars, normVars, title, text, sampleVars, tagVars>>
    \/ Extract /\ UNCHANGED <<uploadVars, normVars, title, text, sampleVars, tagVars>>

SpecCodec == CodecInit /\ [][CodecNext]_vars

-----------------------------------------------------------------------------
(* Driver of the cleaners: a string is put together from bracket groups,   *)
(* a lone opening bracket, a label, a word, blanks, a newline and a        *)
(* zero-width space, then one cleaner is applied to it and again to its    *)
(* own result.                                                             *)

MaxTokens == 3

\* 【完本】
T_GROUP_SQUARE == <<12304, 23436, 26412, 12305>>

\* （全）
T_GROUP_ROUND == <<65288, 20840, 65289>>

\* （
T_OPENER == <<65288>>

\* 剑来
T_WORD == <<21073, 26469>>

\* 作者:
T_LABEL == <<20316, 32773, 58>>

CleanTokens ==
    {T_GROUP_SQUARE, T_GROUP_ROUND, T_OPENER, T_WORD, T_LABEL,
     <<SPACE>>, <<NL>>, <<ZWSP>>}

TypeToken ==
    /\ pc = "input"
    /\ written < MaxTokens
    /\ \E t \in CleanTokens : arg' = arg \o t
    /\ written' = written + 1
    /\ UNCHANGED <<pc, res>>

CleanValue ==
    /\ pc = "input"
    /\ res' = <<_clean_value(arg)>>
    /\ pc' = "value"
    /\ UNCHANGED <<arg, written>>

CleanValueAgain ==
    /\ pc = "value"
    /\ Len(res) = 1
    /\ res' = Append(res, _clean_value(res[1]))
    /\ UNCHANGED <<pc, arg, written>>

CleanTitle ==
    /\ pc = "input"
    /\ res' = <<_clean_title(arg)>>
    /\ pc' = "title"
    /\ UNCHANGED <<arg, written>>

CleanTitleAgain ==
    /\ pc = "title"
    /\ Len(res) = 1
    /\ res' = Append(res, _clean_title(res[1]))
    /\ UNCHANGED <<pc, arg, written>>

CleanAuthor ==
    /\ pc = "input"
    /\ res' = <<_clean_author(arg)>>
    /\ pc' = "author"
    /\ UNCHANGED <<arg, written>>

CleanAuthorAgain ==
    /\ pc = "author"
    /\ Len(res) = 1
    /\ res' = Append(res, _clean_author(res[1]))
    /\ UNCHANGED <<pc, arg, written>>

CleanStep ==
    \/ TypeToken
    \/ CleanValue
    \/ CleanValueAgain
    \/ CleanTitle
    \/ CleanTitleAgain
    \/ CleanAuthor
    \/ CleanAuthorAgain

CleanNext ==
    CleanStep /\ UNCHANGED <<uploadVars, title, text, sampleVars, tagVars, metaVars>>

SpecClean == NormInit /\ [][CleanNext]_vars

-----------------------------------------------------------------------------
(* Driver of the classifiers: the text is written from phrases that hold   *)
(* keywords of the genre and maturity rules (three keywords of one rule,   *)
(* one keyword 6 or 12 times, keywords of two rules, keywords below the    *)
(* thresholds), then generate_tags is called with the default limit.       *)

MaxPhrases == 3

\* 修仙金丹元婴修仙金丹。
K_XIANXIA ==
    <<20462, 20185, 37329, 20025, 20803, 23156, 20462, 20185, 37329, 20025, 12290>>

\* 江湖，, 6 times
K_WUXIA_SIX == Repeat(<<27743, 28246, 65292>>, 6)

\* 魔法，, 12 times
K_QIHUAN_TWELVE == Repeat(<<39764, 27861, 65292>>, 12)

\* 星际机甲。
K_KEHUAN_TWO == <<26143, 38469, 26426, 30002, 12290>>

\* 后宫全收校花班花。
K_HAREM_BELLE == <<21518, 23467, 20840, 25910, 26657, 33457, 29677, 33457, 12290>>

\* 少妇寡妇骚气放荡。
K_WIFE_LOOSE == <<23569, 22919, 23521, 22919, 39578, 27668, 25918, 33633, 12290>>

\* 高潮插入。
K_CLIMAX == <<39640, 28526, 25554, 20837, 12290>>

\* 女神。
K_GODDESS == <<22899, 31070, 12290>>

RulePhrases ==
    {K_XIANXIA, K_WUXIA_SIX, K_QIHUAN_TWELVE, K_KEHUAN_TWO,
     K_HAREM_BELLE, K_WIFE_LOOSE, K_CLIMAX, K_GODDESS}

RulesInit ==
    /\ pc = "input"
    /\ NormIdle
    /\ UploadIdle
    /\ SampleIdle
    /\ MetaIdle
    /\ title = <<>>
    /\ text = <<>>
    /\ limit = DEFAULT_LIMIT
    /\ hash_seed \in Seeds
    /\ runs = <<>>
    /\ name_counter = <<>>
    /\ written = 0

WritePhrase ==
    /\ pc = "input"
    /\ written < MaxPhrases
    /\ \E p \in RulePhrases : text' = text \o p
    /\ written' = written + 1
    /\ UNCHANGED <<pc, title, limit, hash_seed, runs, name_counter>>

RulesNext ==
    \/ WritePhrase /\ UNCHANGED <<uploadVars, normVars, sampleVars, metaVars>>
    \/ Generate /\ UNCHANGED <<uploadVars, normVars, sampleVars, metaVars>>

SpecRules == RulesInit /\ [][RulesNext]_vars

-----------------------------------------------------------------------------
(* Driver of the name ranking: the name detector's counter is filled token *)
(* by token with an occurrence count and a bucket mask (counts of a long   *)
(* novel included), then the candidates are ranked and the top 8 kept.     *)

MaxNames == 9

\* the k-th token counted: 一丁, 丁丂, ...
NameToken(k) == <<CJK_LO + k - 1, CJK_LO + k>>

\* (occurrences, buckets) a token may have been counted with
NameCounts ==
    {[c |-> 6, mask |-> {0, 2, 4}],
     [c |-> 7, mask |-> {0, 2, 4}],
     [c |-> 100007, mask |-> {0, 1}]}

RankInit ==
    /\ pc = "input"
    /\ NormIdle
    /\ UploadIdle
    /\ SampleIdle
    /\ MetaIdle
    /\ title = <<>>
    /\ text = <<>>
    /\ limit = DEFAULT_LIMIT
    /\ hash_seed = 0
    /\ runs = <<>>
    /\ name_counter = <<>>
    /\ written = 0

CountName ==
    /\ pc = "input"
    /\ Len(name_counter) < MaxNames
    /\ \E o \in NameCounts :
           name_counter' =
               Append(name_counter,
                      [tok |-> NameToken(Len(name_counter) + 1),
                       c |-> o.c, mask |-> o.mask])
    /\ UNCHANGED <<pc, title, text, limit, hash_seed, runs, written>>

RankNames ==
    /\ pc = "input"
    /\ runs' = Append(runs,
           With(ranked_names(name_counter), LAMBDA ranked :
               [name_candidates |-> ranked, name_tags |-> Tags(Take(ranked, 8))]))
    /\ pc' = "ranked"
    /\ UNCHANGED <<title, text, limit, hash_seed, written, name_counter>>

RankNext ==
    \/ CountName /\ UNCHANGED <<uploadVars, normVars, sampleVars, metaVars>>
    \/ RankNames /\ UNCHANGED <<uploadVars, normVars, sampleVars, metaVars>>

SpecRank == RankInit /\ [][RankNext]_vars

-----------------------------------------------------------------------------
(* Driver of the tokenizers: the title is empty or a word of four          *)
(* characters, the text is written from short CJK runs repeated six times  *)
(* (a name, a name at the end of a longer run, a piece of the title, a     *)
(* single character, two four-character words), then generate_tags is      *)
(* called with the default limit.                                          *)

\* 天地玄黄
W_TITLE == <<22825, 22320, 29572, 40644>>

\* 天地玄黄林动，
R_LONG == <<22825, 22320, 29572, 40644, 26519, 21160, 65292>>

\* 天地，
R_PART == <<22825, 22320, 65292>>

\* 天，
R_SINGLE == <<22825, 65292>>

TokenTitles == {<<>>, W_TITLE}

\* (run, repetitions) a writer may append
TokenRuns ==
    {<<R_LONG, 6>>, <<P_NAME, 6>>, <<R_PART, 6>>, <<R_SINGLE, 6>>,
     <<P_KEYWORDS, 6>>}

TokenInit ==
    /\ pc = "input"
    /\ NormIdle
    /\ UploadIdle
    /\ SampleIdle
    /\ MetaIdle
    /\ title \in TokenTitles
    /\ text = <<>>
    /\ limit = DEFAULT_LIMIT
    /\ hash_seed \in Seeds
    /\ runs = <<>>
    /\ name_counter = <<>>
    /\ written = 0

WriteRun ==
    /\ pc = "input"
    /\ written < MaxChunks
    /\ \E c \in TokenRuns : text' = text \o Repeat(c[1], c[2])
    /\ written' = written + 1
    /\ UNCHANGED <<pc, title, limit, hash_seed, runs, name_counter>>

TokenNext ==
    \/ WriteRun /\ UNCHANGED <<uploadVars, normVars, sampleVars, metaVars>>
    \/ Generate /\ UNCHANGED <<uploadVars, normVars, sampleVars, metaVars>>

SpecTokens == TokenInit /\ [][TokenNext]_vars

-----------------------------------------------------------------------------
(* Driver of the two sampling passes of generate_tags: a title and a text  *)
(* of a length around one segment, around the budget or beyond it are      *)
(* drawn, then the sampling lines of generate_tags are run on them.        *)

\* text lengths up to one segment (40000 or 39999 characters), between one
\* segment and the budget, and beyond the budget
PassLens ==
    {1, 2, MIN_SEG_LEN, 39998, 39999, 40000, 40001, 40002, 50000, 80001,
     120000, 160000, 199996, 199997, 199998, 199999, 200000, 200001, 200002,
     240000}

PassInit ==
    /\ pc = "passes_input"
    /\ written = 0
    /\ NormIdle
    /\ UploadIdle
    /\ TagIdle
    /\ MetaIdle
    /\ segment_len = 0
    /\ segments = SEGMENTS
    /\ budget = BUDGET
    /\ out = <<>>
    /\ title \in SampleTitles
    /\ \E n \in PassLens : text = FillerText(n)

CallSamplingPasses ==
    /\ pc = "passes_input"
    /\ out' = generate_tags_samples(title, text)
    /\ pc' = "passes_done"
    /\ UNCHANGED <<title, text, budget, segment_len, segments>>

PassNext ==
    CallSamplingPasses
        /\ UNCHANGED <<uploadVars, written, normVars, tagVars, metaVars>>

SpecPasses == PassInit /\ [][PassNext]_vars

-----------------------------------------------------------------------------
(* Driver of the line scan of the front matter: a text is written from     *)
(* blocks (runs of empty lines and of body lines around the limits of      *)
(* 1200 and 400 lines, and one field line of each kind), then              *)
(* _extract_txt_front_matter is called on it.                              *)

MaxBlocks == 3

\* 书名：雪中\n
S_TITLE ==
    <<20070, 21517, 65306, 38634, 20013, 10>>

\* 作者：总管\n
S_AUTHOR ==
    <<20316, 32773, 65306, 24635, 31649, 10>>

\* 标签：江湖\n
S_TAGS ==
    <<26631, 31614, 65306, 27743, 28246, 10>>

\* 简介：少年\n
S_DESC ==
    <<31616, 20171, 65306, 23569, 24180, 10>>

\* 正文\n
S_BODY ==
    <<27491, 25991, 10>>

ScanBlocks ==
    {Repeat(<<NL>>, SCAN_LINES - 1), Repeat(<<NL>>, SCAN_LINES),
     Repeat(S_BODY, FRONT_LINES - 1), Repeat(S_BODY, FRONT_LINES),
     S_TITLE, S_AUTHOR, S_TAGS, S_DESC}

ScanInit ==
    /\ pc = "scan_input"
    /\ written = 0
    /\ NormIdle
    /\ UploadIdle
    /\ SampleIdle
    /\ TagIdle
    /\ MetaIdle
    /\ title = <<>>
    /\ text = <<>>

WriteBlock ==
    /\ pc = "scan_input"
    /\ written < MaxBlocks
    /\ \E b \in ScanBlocks : text' = text \o b
    /\ written' = written + 1
    /\ UNCHANGED <<pc, out>>

CallFrontMatter ==
    /\ pc = "scan_input"
    /\ out' = _extract_txt_front_matter(text)
    /\ pc' = "scanned"
    /\ UNCHANGED <<written, text>>

ScanNext ==
    \/ WriteBlock
         /\ UNCHANGED <<uploadVars, normVars, title, budget, segment_len, segments, tagVars,
                        metaVars>>
    \/ CallFrontMatter
         /\ UNCHANGED <<uploadVars, normVars, title, budget, segment_len, segments, tagVars,
                        metaVars>>

SpecScan == ScanInit /\ [][ScanNext]_vars

-----------------------------------------------------------------------------
(* The upload handler.  Every handle_document run is a task of its own     *)
(* with a session of its own, that is one transaction of the PostgreSQL    *)
(* database (read committed, the default of the engine: a select sees the  *)
(* rows committed before it).  The session is made with autoflush off, so  *)
(* the rows added to it are written by session.flush() and by              *)
(* session.commit() only.  An insert of a primary key that another open    *)
(* transaction has inserted waits for that transaction to end; an insert   *)
(* of a primary key that is committed raises IntegrityError, which the     *)
(* handler catches at its end, and the session is rolled back on exit.     *)
(* The rows of file_refs, tags and book_tags and the search index are left *)
(* out; an error of theirs is a run that fails.                            *)

BASE_REWARD == 5

MEBIBYTE == 1048576

SIZE_REWARD_STEP_MB == 10

SIZE_REWARD_CAP == 10

MAX_FILE_SIZE_MB == 100

MAX_FILE_SIZE_BYTES == MAX_FILE_SIZE_MB * MEBIBYTE

SUPPORTED_FORMATS == {"txt", "pdf", "epub", "mobi", "azw3", "doc", "docx"}

format_rewards(format_type) ==
    IF format_type \in {"pdf", "epub", "mobi", "azw3"} THEN 2 ELSE 1

calculate_upload_reward(file_size, format_type) ==
    BASE_REWARD
    + IntMin((file_size \div MEBIBYTE) \div SIZE_REWARD_STEP_MB, SIZE_REWARD_CAP)
    + format_rewards(format_type)

\* the rows of books for a hash that a select of the ACTIVE ones returns
active_books(db, file_hash) ==
    SelectSeq(db.books, LAMBDA b : b.file_hash = file_hash /\ b.status = "ACTIVE")

\* the session has added a File (a User) that it has not found
adds_file(s) == s.db_file = "new"

adds_user(s) == s.db_user = "new"

\* IntegrityError where files has no primary key
IntegrityError_users_only(db, s) ==
    adds_user(s) /\ db.users[s.user].present

\* the flush of s inserts a primary key (files.sha256_hash, users.id) that
\* is committed already
IntegrityError(db, s) ==
    \/ adds_file(s) /\ s.document.sha256 \in db.files
    \/ adds_user(s) /\ db.users[s.user].present

\* the flush of session r waits: another open transaction has inserted a
\* primary key that r inserts
Blocked(r) ==
    \E q \in 1..Len(sessions) :
        /\ q # r
        /\ sessions[q].flushed
        /\ \/ /\ adds_file(sessions[q]) /\ adds_file(sessions[r])
              /\ sessions[q].document.sha256 = sessions[r].document.sha256
           \/ /\ adds_user(sessions[q]) /\ adds_user(sessions[r])
              /\ sessions[q].user = sessions[r].user

\* the except branch of the handler and the exit of the session block
Rollback(s, e) == [s EXCEPT !.pc = "failed", !.flushed = FALSE, !.error = e]

-----------------------------------------------------------------------------
(* Driver of the upload handler: up to MaxUploads documents are received   *)
(* from two users (the same bytes as txt and under a pdf name, another     *)
(* file of 20 MB, a format that is not supported), and the runs advance    *)
(* one database statement at a time, in any order.                         *)

MaxUploads == 3

UserIds == {101, 102}

\* a txt file of 1024 bytes
DOC_TXT ==
    [sha256 |-> "aa", file_size |-> 1024, file_ext |-> "txt"]

\* the same bytes sent under a pdf name
DOC_PDF ==
    [sha256 |-> "aa", file_size |-> 1024, file_ext |-> "pdf"]

\* an epub file of 20 MB
DOC_EPUB ==
    [sha256 |-> "bb", file_size |-> 20 * MEBIBYTE, file_ext |-> "epub"]

\* a file of a format that is not supported
DOC_EXE ==
    [sha256 |-> "cc", file_size |-> 1024, file_ext |-> "exe"]

Documents == {DOC_TXT, DOC_PDF, DOC_EPUB, DOC_EXE}

UploadInit ==
    /\ pc = "handlers"
    /\ written = 0
    /\ NormIdle
    /\ SampleIdle
    /\ TagIdle
    /\ MetaIdle
    /\ title = <<>>
    /\ text = <<>>
    /\ database = [users |-> [u \in UserIds |->
                                 [present |-> FALSE, coins |-> 0, upload_count |-> 0]],
                   files |-> {},
                   books |-> <<>>]
    /\ sessions = <<>>

\* handle_document is called: format and size are checked, the file is
\* downloaded and hashed, the session is opened
Receive ==
    /\ Len(sessions) < MaxUploads
    /\ \E u \in UserIds, d \in Documents :
           sessions' = Append(sessions,
               [pc |-> IF /\ d.file_ext \in SUPPORTED_FORMATS
                          /\ d.file_size >= 1
                          /\ d.file_size <= MAX_FILE_SIZE_BYTES
                       THEN "select_user" ELSE "rejected",
                user |-> u,
                document |-> d,
                db_user |-> "unread",
                coins |-> 0,
                upload_count |-> 0,
                db_file |-> "unread",
                existing_book |-> FALSE,
                new_book |-> FALSE,
                reward_coins |-> 0,
                credited |-> FALSE,
                flushed |-> FALSE,
                error |-> ""])
    /\ UNCHANGED database

\* select(User); a user without a row is added with no coins
SelectUser ==
    \E r \in 1..Len(sessions) :
        /\ sessions[r].pc = "select_user"
        /\ LET row == database.users[sessions[r].user]
           IN  sessions' = [sessions EXCEPT ![r] =
                   [@ EXCEPT !.db_user = IF row.present THEN "found" ELSE "new",
                             !.coins = IF row.present THEN row.coins ELSE 0,
                             !.upload_count = IF row.present THEN row.upload_count
                                              ELSE 0,
                             !.pc = "select_file"]]
        /\ UNCHANGED database

\* select(File) by hash; a file without a row is added
SelectFile ==
    \E r \in 1..Len(sessions) :
        /\ sessions[r].pc = "select_file"
        /\ sessions' = [sessions EXCEPT ![r] =
               [@ EXCEPT !.db_file = IF sessions[r].document.sha256 \in database.files
                                     THEN "found" ELSE "new",
                         !.pc = "select_book"]]
        /\ UNCHANGED database

\* select(Book) by hash and status; without an ACTIVE book the reward is
\* computed and a Book is added
SelectBook ==
    \E r \in 1..Len(sessions) :
        /\ sessions[r].pc = "select_book"
        /\ LET existing == active_books(database, sessions[r].document.sha256) # <<>>
           IN  sessions' = [sessions EXCEPT ![r] =
                   [@ EXCEPT !.existing_book = existing,
                             !.new_book = ~existing,
                             !.reward_coins =
                                 IF existing THEN 0
                                 ELSE calculate_upload_reward(
                                          sessions[r].document.file_size,
                                          sessions[r].document.file_ext),
                             !.pc = IF existing THEN "commit" ELSE "flush"]]
        /\ UNCHANGED database

\* session.flush() after the Book is added, then the reward is credited on
\* the User of the session
Flush ==
    \E r \in 1..Len(sessions) :
        /\ sessions[r].pc = "flush"
        /\ ~Blocked(r)
        /\ sessions' = [sessions EXCEPT ![r] =
               IF IntegrityError(database, @)
               THEN Rollback(@, "IntegrityError")
               ELSE [@ EXCEPT !.flushed = TRUE,
                              !.coins = @ + sessions[r].reward_coins,
                              !.upload_count = @ + 1,
                              !.credited = TRUE,
                              !.pc = "commit"]]
        /\ UNCHANGED database

\* session.flush() after a Tag is added (a tag of the metadata without a
\* row): the rows the session has added so far are written
FlushTag ==
    \E r \in 1..Len(sessions) :
        /\ sessions[r].pc = "commit"
        /\ ~sessions[r].flushed
        /\ ~Blocked(r)
        /\ sessions' = [sessions EXCEPT ![r] =
               IF IntegrityError(database, @)
               THEN Rollback(@, "IntegrityError")
               ELSE [@ EXCEPT !.flushed = TRUE]]
        /\ UNCHANGED database

\* session.commit(): what is left to write is flushed, then every row of
\* the session is committed
Commit ==
    \E r \in 1..Len(sessions) :
        /\ sessions[r].pc = "commit"
        /\ sessions[r].flushed \/ ~Blocked(r)
        /\ LET s == sessions[r]
           IN  IF ~s.flushed /\ IntegrityError(database, s)
               THEN /\ sessions' = [sessions EXCEPT ![r] =
                                       Rollback(s, "IntegrityError")]
                    /\ UNCHANGED database
               ELSE /\ sessions' = [sessions EXCEPT ![r] =
                                       [s EXCEPT !.flushed = FALSE, !.pc = "done"]]
                    /\ database' =
                          [users |-> IF adds_user(s) \/ s.credited
                                     THEN [database.users EXCEPT ![s.user] =
                                              [present |-> TRUE,
                                               coins |-> s.coins,
                                               upload_count |-> s.upload_count]]
                                     ELSE database.users,
                           files |-> IF adds_file(s)
                                     THEN database.files \cup {s.document.sha256}
                                     ELSE database.files,
                           books |-> IF s.new_book
                                     THEN Append(database.books,
                                                 [file_hash |-> s.document.sha256,
                                                  uploader_id |-> s.user,
                                                  status |-> "ACTIVE"])
                                     ELSE database.books]

\* an await of the run raises (the network, the database, a row that is not
\* modelled): the handler reports the failure, the session is rolled back
Raise ==
    \E r \in 1..Len(sessions) :
        /\ sessions[r].pc \in {"select_user", "select_file", "select_book",
                               "flush", "commit"}
        /\ sessions' = [sessions EXCEPT ![r] = Rollback(@, "Exception")]
        /\ UNCHANGED database

UploadNext ==
    \/ Receive
         /\ UNCHANGED <<pc, written, normVars, title, text, sampleVars, tagVars,
                        metaVars>>
    \/ SelectUser
         /\ UNCHANGED <<pc, written, normVars, title, text, sampleVars, tagVars,
                        metaVars>>
    \/ SelectFile
         /\ UNCHANGED <<pc, written, normVars, title, text, sampleVars, tagVars,
                        metaVars>>
    \/ SelectBook
         /\ UNCHANGED <<pc, written, normVars, title, text, sampleVars, tagVars,
                        metaVars>>
    \/ Flush
         /\ UNCHANGED <<pc, written, normVars, title, text, sampleVars, tagVars,
                        metaVars>>
    \/ FlushTag
         /\ UNCHANGED <<pc, written, normVars, title, text, sampleVars, tagVars,
                        metaVars>>
    \/ Commit
         /\ UNCHANGED <<pc, written, normVars, title, text, sampleVars, tagVars,
                        metaVars>>
    \/ Raise
         /\ UNCHANGED <<pc, written, normVars, title, text, sampleVars, tagVars,
                        metaVars>>

SpecUpload == UploadInit /\ [][UploadNext]_vars

-----------------------------------------------------------------------------
(* Both drivers side by side: either function is called twice on the same  *)
(* arguments (generate_tags with the default limit, extract_upload_metadata *)
(* on a file named after a book or on one with a blank name).              *)

TwiceInit ==
    \/ TagInit /\ limit = DEFAULT_LIMIT
    \/ MetaInit /\ file_name \in {N_BOOK, N_BLANK}

TwiceNext == TagNext \/ MetaNext

SpecTwice == TwiceInit /\ [][TwiceNext]_vars

-----------------------------------------------------------------------------
(* C8 as stated: for budget >= len(title) + 1 the sampled text is at most  *)
(* budget + c characters long, c the number of separators (one per         *)
(* segment).  The code violates it for budgets below segments x 10000,     *)
(* because a segment never has fewer than 10000 characters.                *)
C8_LengthWithinBudget ==
    (pc = "text_done" /\ budget >= Len(title) + 1)
        => Len(out) <= budget + IntMax(1, segments)

(* C8 as amended: for segments >= 1 and budget >= len(title) + 1,          *)
(*   len(sample_text(..)) <= max(budget, len(title) + 1 + segments*10000)  *)
(*                           + segments - 1,                               *)
(* whatever the length of the text.                                        *)
C8_LengthWithinBudgetOrFloor ==
    (pc = "text_done" /\ segments >= 1 /\ budget >= Len(title) + 1)
        => Len(out) <= IntMax(budget, Len(title) + 1 + segments * MIN_SEG_LEN)
                          + segments - 1

\* a budget below segments x 10000 whose sample exceeds budget + segments, and
\* which nevertheless is made of several 10000-character segments
C8_Witness ==
    /\ pc = "text_done"
    /\ segments >= 2
    /\ budget >= Len(title) + 1
    /\ budget < segments * MIN_SEG_LEN
    /\ Len(text) > segments * MIN_SEG_LEN
    /\ Len(out) > budget + segments

-----------------------------------------------------------------------------
(* C9 as stated: sample_segments returns exactly [text] whenever           *)
(* len(text) <= segment_len, the empty text included.  The code returns    *)
(* the empty list for the empty text.                                      *)
C9_ShortTextIsOneSegment ==
    (pc = "segments_done" /\ Len(text) <= segment_len) => out = <<text>>

(* C9 as amended: whenever len(text) <= segment_len, sample_segments       *)
(* returns [text] for a non-empty text and [] for the empty text, for      *)
(* every segments value.                                                   *)
C9_ShortNonEmptyTextIsOneSegment ==
    (pc = "segments_done" /\ Len(text) <= segment_len)
        => out = (IF text = <<>> THEN <<>> ELSE <<text>>)

C9_Witness ==
    /\ pc = "segments_done"
    /\ text # <<>>
    /\ Len(text) <= segment_len
    /\ segments > 1
    /\ out = <<text>>

-----------------------------------------------------------------------------
(* C5: normalize_tag is idempotent, for the metadata normalizer and for    *)
(* the auto-tag normalizer: applying it to its own result changes nothing. *)
(* Stated as the claim states it; the code violates it ('# #a' -> '#a' ->  *)
(* 'a').                                                                   *)
C5_NormalizeTagIdempotent == Len(res) = 2 => res[2] = res[1]

-----------------------------------------------------------------------------
(* C3 as stated: every tag of the UploadMetadata returned by               *)
(* extract_upload_metadata has between 1 and 20 characters, does not start *)
(* with '#' and contains no whitespace.  The code violates it: the         *)
(* metadata normalizer has no length cap, a token of 21 characters is      *)
(* returned whole.                                                         *)
C3_MetadataTagsNormalized ==
    \A i \in 1..Len(metas) :
        \A k \in 1..Len(metas[i].tags) :
            /\ metas[i].tags[k] # <<>>
            /\ Len(metas[i].tags[k]) <= TAG_CAP
            /\ metas[i].tags[k][1] # HASH
            /\ \A c \in 1..Len(metas[i].tags[k]) : ~IsSpace(metas[i].tags[k][c])

-----------------------------------------------------------------------------
\* the tag tokens of the scanned front-matter lines in text order: the
\* pieces of the value of every tag-like line, normalized as the extractor
\* and extract_upload_metadata normalize them, without the empty ones
TagTokenStream(txt) ==
    LET lines == front_matter_lines(txt)
        Tokens(ln) ==
            LET m == _RE_FIELD_match(ln)
                parts == SplitNonEmpty(_clean_value(_clean_value(m.v)), TAG_SEPARATORS)
            IN  IF m.ok /\ m.k \in TAG_KEYS
                THEN SelectSeq([k \in 1..Len(parts) |->
                                  meta_normalize_tag(meta_normalize_tag(parts[k]))],
                               LAMBDA t : t # <<>>)
                ELSE <<>>
    IN  Flatten([k \in 1..Len(lines) |-> Tokens(lines[k])])

FirstIndex(list, x) == SetMin({i \in 1..Len(list) : list[i] = x})

(* C4: UploadMetadata.tags never has more than 30 elements, never holds    *)
(* the same string twice, and its elements appear in the order of their    *)
(* first occurrence in the scanned front-matter lines.                     *)
C4_TagsCappedUniqueInOrder ==
    \A i \in 1..Len(metas) :
        LET tags == metas[i].tags
            stream == TagTokenStream(metas[i].text)
        IN  /\ Len(tags) <= TAGS_CAP
            /\ \A j, k \in 1..Len(tags) : tags[j] = tags[k] => j = k
            /\ \A k \in 1..Len(tags) : InSeq(tags[k], stream)
            /\ \A j, k \in 1..Len(tags) :
                   j < k => FirstIndex(stream, tags[j]) < FirstIndex(stream, tags[k])

\* more than 30 distinct tokens on several tag-like lines, one of them
\* repeated, and exactly 30 tags returned
C4_Witness ==
    \E i \in 1..Len(metas) :
        LET stream == TagTokenStream(metas[i].text)
        IN  /\ Cardinality(SeqRange(stream)) > TAGS_CAP
            /\ Cardinality(SeqRange(stream)) < Len(stream)
            /\ Len(metas[i].tags) = TAGS_CAP

-----------------------------------------------------------------------------
\* the file name without its extension, cleaned
NameBase == _clean_value(BeforeLastDot(_clean_value(file_name)))

(* C6: for every file name, extension and byte content the title and the   *)
(* author returned by extract_upload_metadata are non-empty; where neither *)
(* the file name nor the front matter supplies one, the title is 未知 and  *)
(* the author Unknown.                                                     *)
C6_TitleAuthorNeverEmpty ==
    \A i \in 1..Len(metas) :
        /\ metas[i].title # <<>>
        /\ metas[i].author # <<>>
        /\ (NameBase = <<>> /\ (~metas[i].read \/ metas[i].fm.title = <<>>))
               => metas[i].title = UNKNOWN_TITLE
        /\ (NameBase = <<>> /\ (~metas[i].read \/ metas[i].fm.author = <<>>))
               => metas[i].author = UNKNOWN_AUTHOR

\* a file name made of bracket groups only, over a front matter whose title
\* line and author line carry no value
C6_Witness ==
    \E i \in 1..Len(metas) :
        /\ file_name = N_BRACKETS
        /\ metas[i].read
        /\ metas[i].fm.title # <<>>
        /\ metas[i].fm.author # <<>>
        /\ metas[i].title = UNKNOWN_TITLE
        /\ metas[i].author = UNKNOWN_AUTHOR

-----------------------------------------------------------------------------
\* the UploadMetadata of a recorded call
MetaResult(r) ==
    [title |-> r.title, author |-> r.author, tags |-> r.tags,
     word_count |-> r.word_count, description |-> r.description]

(* C7: two runs of extract_upload_metadata on identical arguments and two  *)
(* runs of generate_tags on identical arguments return equal results, the  *)
(* order of the tag list included, also when the second run is made by     *)
(* another process (another hash seed).                                    *)
C7_Deterministic ==
    /\ Len(runs) = 2 => runs[1].tags = runs[2].tags
    /\ Len(metas) = 2 => MetaResult(metas[1]) = MetaResult(metas[2])

\* two runs under different hash seeds whose result holds two keyword tags
\* of equal score
C7_Witness ==
    /\ Len(runs) = 2
    /\ runs[1].seed # runs[2].seed
    /\ \E a, b \in 1..Len(runs[2].keywords) :
           /\ a # b
           /\ runs[2].keywords[a][1] = runs[2].keywords[b][1]
           /\ InSeq(runs[2].keywords[a][2], runs[2].tags)
           /\ InSeq(runs[2].keywords[b][2], runs[2].tags)

-----------------------------------------------------------------------------
\* number of tags the title, maturity, genre and name sources supply
SourceTagCount(r) ==
    Len(r.title_tags) + Len(r.adult_tags) + Len(r.genre_tags) + Len(r.name_tags)

(* C1: for every title, text and limit L >= 0 the list returned by         *)
(* generate_tags has at most L elements (none for L = 0), also when the    *)
(* title, maturity, genre and name sources alone supply more than L tags.  *)
C1_AtMostLimitTags == \A i \in 1..Len(runs) : Len(runs[i].tags) <= limit

\* the four sources supply more tags than the limit allows, and the result
\* has exactly limit elements
C1_Witness ==
    \E i \in 1..Len(runs) :
        /\ limit > 0
        /\ SourceTagCount(runs[i]) > limit
        /\ Len(runs[i].tags) = limit

-----------------------------------------------------------------------------
NoRepeat(list) == \A i, j \in 1..Len(list) : list[i] = list[j] => i = j

IsNormalizedTag(t) ==
    /\ t # <<>>
    /\ Len(t) <= TAG_CAP
    /\ t[1] # HASH
    /\ \A k \in 1..Len(t) : ~IsSpace(t[k])

(* C2: every element of the list returned by generate_tags is a non-empty  *)
(* string of at most 20 characters with no leading '#' and no whitespace,  *)
(* and no string occurs twice in the list.                                 *)
C2_TagsNormalizedAndUnique ==
    \A i \in 1..Len(runs) :
        /\ \A k \in 1..Len(runs[i].tags) : IsNormalizedTag(runs[i].tags[k])
        /\ NoRepeat(runs[i].tags)

\* a tag supplied twice (by the title and by the genre classifier) over a
\* text holding '#', quotes and blanks, returned once among several tags
C2_Witness ==
    \E i \in 1..Len(runs) :
        /\ \E t \in SeqRange(runs[i].title_tags) : InSeq(t, runs[i].genre_tags)
        /\ Contains(text, <<HASH, DQUOTE>>)
        /\ Len(runs[i].tags) >= 2

-----------------------------------------------------------------------------
\* 仙侠
XIANXIA == <<20185, 20384>>

\* 修仙, 金丹, 元婴, 渡劫
XIANXIA_KEYWORDS ==
    {<<20462, 20185>>, <<37329, 20025>>, <<20803, 23156>>, <<28193, 21163>>}

\* each of the four keywords occurs at least 6 times in s
SixOfEach(s) == \A k \in XIANXIA_KEYWORDS : CountOcc(s, k) >= 6

\* no keyword of a genre rule other than 仙侠 occurs in s
NoOtherGenre(s) ==
    \A r \in 1..Len(GENRE_RULES) :
        GENRE_RULES[r].tag # XIANXIA
            => \A k \in 1..Len(GENRE_RULES[r].keys) :
                   ~Contains(s, GENRE_RULES[r].keys[k])

-----------------------------------------------------------------------------
\* the occurrences the name detector counts: the matches of [CJK]{1,4} in the
\* full text whose token has 2 or 3 characters, is no noise token and does
\* not occur in the title
NameMatches ==
    SelectSeq(finditer_cjk_1(text),
              LAMBDA m : /\ Len(m.tok) \in {2, 3}
                         /\ ~_is_noise_token(m.tok)
                         /\ ~(Strip(title) # <<>> /\ Contains(Strip(title), m.tok)))

\* start offsets of the occurrences of t among the matches ms
NameStarts(ms, t) == {ms[k].start : k \in {i \in 1..Len(ms) : ms[i].tok = t}}

\* the buckets, of 6 of equal length len(text)/6, in which t starts: offset p
\* lies in bucket b when b * len/6 <= p < (b + 1) * len/6
NameBuckets(ms, t) ==
    {b \in 0..(BUCKETS - 1) :
        \E p \in NameStarts(ms, t) :
            b * Len(text) <= p * BUCKETS /\ p * BUCKETS < (b + 1) * Len(text)}

\* number of occurrences of t among the matches ms
NameCount(ms, t) == Cardinality({i \in 1..Len(ms) : ms[i].tok = t})

\* the tokens of the matches ms
NameTokens(ms) == {ms[k].tok : k \in 1..Len(ms)}

(* C11: a token that passed the filters of the name detector is a name     *)
(* candidate if and only if it starts in at least 2 of the 6 equal-length  *)
(* buckets of the full text and occurs at least 6 times; a token whose     *)
(* occurrences all start in one bucket is never a candidate.               *)
C11_NameNeedsTwoBucketsSixTimes ==
    runs # <<>> =>
        With(NameMatches, LAMBDA ms :
            \A t \in NameTokens(ms) :
                With(Cardinality(NameBuckets(ms, t)), LAMBDA nb :
                    \A i \in 1..Len(runs) :
                        /\ InSeq(t, Tags(runs[i].name_candidates))
                               <=> (nb >= 2 /\ NameCount(ms, t) >= 6)
                        /\ nb = 1 => ~InSeq(t, Tags(runs[i].name_candidates))))

\* one text holds a token of 8 occurrences in a single bucket, which is no
\* candidate, and a token of 6 occurrences over several buckets, which is
C11_Witness ==
    /\ runs # <<>>
    /\ With(NameMatches, LAMBDA ms :
           /\ \E a \in NameTokens(ms) :
                  /\ NameCount(ms, a) >= 8
                  /\ Cardinality(NameBuckets(ms, a)) = 1
                  /\ ~InSeq(a, Tags(runs[1].name_candidates))
           /\ \E b \in NameTokens(ms) :
                  /\ NameCount(ms, b) = 6
                  /\ Cardinality(NameBuckets(ms, b)) >= 2
                  /\ InSeq(b, Tags(runs[1].name_candidates)))

-----------------------------------------------------------------------------
\* where 《Title》Author splits the base name: the first 》 that leaves a
\* title before it and an author after it (none: the empty set)
BookSplits(base) ==
    IF base # <<>> /\ base[1] = LBOOK
    THEN {j \in 3..(Len(base) - 1) : base[j] = RBOOK}
    ELSE {}

\* where Title-separator-Author splits the base name: the separators that
\* have a title before them and an author after them
DashSplits(base) == {k \in 2..(Len(base) - 1) : base[k] \in TITLE_SEPARATORS}

\* the two parts of base around position k, cleaned as a title and an author
SplitAt(base, from, k) ==
    [title |-> _clean_title(SubSeq(base, from, k - 1)),
     author |-> _clean_author(SubSeq(base, k + 1, Len(base)))]

(* C12: parse_title_author_from_filename strips the extension, then splits *)
(* a name of the form 《Title》Author at the first 》 even if it holds a    *)
(* separator, else splits a name holding a separator (- _ — –) between a   *)
(* title and an author at the first such separator, else returns the       *)
(* whole base name as title with author Unknown; titles and authors are    *)
(* cleaned.  剑来 - 烽火戏诸侯.txt gives (剑来, 烽火戏诸侯).               *)
C12_BookPatternBeforeDashPattern ==
    \A i \in 1..Len(metas) :
        With(NameBase, LAMBDA base :
            /\ metas[i].name =
                   IF BookSplits(base) # {}
                   THEN SplitAt(base, 2, SetMin(BookSplits(base)))
                   ELSE IF DashSplits(base) # {}
                   THEN SplitAt(base, 1, SetMin(DashSplits(base)))
                   ELSE [title |-> _clean_title(base), author |-> UNKNOWN_AUTHOR]
            /\ file_name = N_SPACED
                   => metas[i].name =
                          [title |-> <<21073, 26469>>,
                           author |-> <<28925, 28779, 25103, 35832, 20399>>])

\* a name of the form 《Title》Author whose title holds a separator, split
\* at the 》 and not at the separator
C12_Witness ==
    \E i \in 1..Len(metas) :
        /\ BookSplits(NameBase) # {}
        /\ DashSplits(NameBase) # {}
        /\ SetMin(DashSplits(NameBase)) < SetMin(BookSplits(NameBase))
        /\ metas[i].name.title = <<21073, 45, 26469>>
        /\ metas[i].name.author = <<28925, 28779>>

-----------------------------------------------------------------------------
\* the values, cleaned by clean_value, of the scanned lines of txt that carry
\* one of the keys, in text order
FieldValues(txt, keys) ==
    With(front_matter_lines(txt), LAMBDA lines :
    With([k \in 1..Len(lines) |-> _RE_FIELD_match(lines[k])], LAMBDA m :
    With(SelectSeq(Indices(Len(lines)), LAMBDA k : m[k].ok /\ m[k].k \in keys),
         LAMBDA sel :
    [j \in 1..Len(sel) |-> _clean_value(m[sel[j]].v)])))

(* C13: title, author and description are first-match-wins: when scanned   *)
(* lines carry the field, under any alias, bullet or label bracket, the    *)
(* value of the first such line (cleaned as a title or an author; cut to   *)
(* 800 characters, and absent when empty, as a description) is the one     *)
(* extract_upload_metadata reports, whatever the file name says and        *)
(* whatever later lines of that field say.                                 *)
C13_FirstFieldLineWins ==
    \A i \in 1..Len(metas) :
        metas[i].read =>
            /\ With(FieldValues(metas[i].text, TITLE_KEYS), LAMBDA vs :
                    vs # <<>> => metas[i].title = _clean_title(vs[1]))
            /\ With(FieldValues(metas[i].text, AUTHOR_KEYS), LAMBDA vs :
                    vs # <<>> => metas[i].author = _clean_author(vs[1]))
            /\ With(FieldValues(metas[i].text, DESC_KEYS), LAMBDA vs :
                    vs # <<>> =>
                        metas[i].description =
                            IF vs[1] = <<>> THEN <<>> ELSE <<Take(vs[1], DESC_CAP)>>)

\* two title lines of different values under different aliases in a file
\* whose name gives a third title: the first line's title is reported
C13_Witness ==
    \E i \in 1..Len(metas) :
        /\ metas[i].read
        /\ With(FieldValues(metas[i].text, TITLE_KEYS), LAMBDA vs :
               /\ Len(vs) = 2
               /\ _clean_title(vs[1]) # _clean_title(vs[2])
               /\ metas[i].title = _clean_title(vs[1])
               /\ metas[i].title # metas[i].name.title
               /\ _clean_title(vs[2]) = metas[i].name.title)

-----------------------------------------------------------------------------
(* C14 as stated: tag-like keys accumulate: every non-empty token of the   *)
(* value of every scanned tag-like line appears, normalized, in            *)
(* UploadMetadata.tags, up to the cap of 30 (a token is missing only from  *)
(* a list of 30 tags).  The code violates it: the accumulated list is cut  *)
(* to 30 before the second normalization merges '#x' with 'x', so a list   *)
(* of 29 tags lacks the 31st token.                                        *)
C14_TagTokensAccumulate ==
    \A i \in 1..Len(metas) :
        metas[i].read =>
            \/ Len(metas[i].tags) = TAGS_CAP
            \/ \A t \in SeqRange(TagTokenStream(metas[i].text)) :
                   InSeq(t, metas[i].tags)

-----------------------------------------------------------------------------
\* the strict decodes of the upload in the order utf-8-sig, utf-8, utf-16,
\* utf-16-le, utf-16-be, gb18030, gbk
StrictDecodes ==
    <<decode_utf_8_sig(file_bytes), decode_utf_8(file_bytes),
      decode_utf_16(file_bytes), decode_utf_16_le(file_bytes),
      decode_utf_16_be(file_bytes), decode_gb18030(file_bytes),
      decode_gbk(file_bytes)>>

(* C15: for a txt upload with non-empty bytes the text used for extraction *)
(* is the result of the first codec, in the order utf-8-sig, utf-8,        *)
(* utf-16, utf-16-le, utf-16-be, gb18030, gbk, whose strict decode         *)
(* succeeds, and the single-byte fallback is used if and only if all       *)
(* seven fail; a text is always obtained.                                  *)
C15_FirstCodecThatDecodesWins ==
    \A i \in 1..Len(metas) :
        /\ metas[i].read <=> (Lower(file_ext) = EXT_TXT /\ file_bytes # <<>>)
        /\ metas[i].read =>
               With(StrictDecodes, LAMBDA tries :
                   /\ \A k \in 1..Len(tries) :
                          (tries[k].ok /\ \A j \in 1..(k - 1) : ~tries[j].ok)
                              => (metas[i].codec = k /\ metas[i].text = tries[k].text)
                   /\ (\A k \in 1..Len(tries) : ~tries[k].ok)
                          <=> metas[i].codec = Len(tries) + 1
                   /\ metas[i].codec = Len(tries) + 1
                          => metas[i].text = decode_latin1(file_bytes))

\* five codecs fail and gb18030 gives the text, although gbk decodes the
\* bytes as well
C15_Witness ==
    \E i \in 1..Len(metas) :
        /\ metas[i].read
        /\ metas[i].codec = 6
        /\ decode_gbk(file_bytes).ok
        /\ metas[i].text = decode_gb18030(file_bytes).text

-----------------------------------------------------------------------------
\* no scanned line of txt carries a front-matter field
NoFieldLine(txt) ==
    With(front_matter_lines(txt), LAMBDA lines :
        \A k \in 1..Len(lines) : ~_RE_FIELD_match(lines[k]).ok)

(* C16 as stated: when the extension is not txt (case-insensitively) or    *)
(* the bytes are empty, the result is the title and author derived from    *)
(* the file name, with no tags, no description and word_count 0; when a    *)
(* txt file holds no front-matter field, title, author, tags and           *)
(* description keep those values.  The code violates it: the author        *)
(* derived from the file name is cleaned a second time, which removes a    *)
(* second 作者: label.                                                     *)
C16_FallbackValues ==
    \A i \in 1..Len(metas) :
        /\ (Lower(file_ext) # EXT_TXT \/ file_bytes = <<>>)
               => /\ metas[i].title = metas[i].name.title
                  /\ metas[i].author = metas[i].name.author
                  /\ metas[i].tags = <<>>
                  /\ metas[i].description = <<>>
                  /\ metas[i].word_count = 0
        /\ (Lower(file_ext) = EXT_TXT /\ file_bytes # <<>>
                /\ NoFieldLine(metas[i].text))
               => /\ metas[i].title = metas[i].name.title
                  /\ metas[i].author = metas[i].name.author
                  /\ metas[i].tags = <<>>
                  /\ metas[i].description = <<>>

-----------------------------------------------------------------------------
\* v ends in a bracket group: a closing bracket at its end and an opening
\* bracket before it
EndsInGroup(v) ==
    /\ Len(v) >= 2
    /\ v[Len(v)] \in CLOSERS
    /\ \E i \in 1..(Len(v) - 1) : v[i] \in OPENERS

\* v without its final bracket group (the one that starts at the last
\* opening bracket), trimmed
BeforeFinalGroup(v) ==
    Strip(SubSeq(v, 1, SetMax({i \in 1..(Len(v) - 1) : v[i] \in OPENERS}) - 1))

(* C17 as stated: clean_title removes exactly one bracket group, the last  *)
(* one, and only when it ends the string: for a cleaned value P + G with G *)
(* the final group the result is P trimmed (未知 if nothing is left), so   *)
(* earlier groups are kept; any other value is returned as it is.  The     *)
(* code violates it: it removes everything from the first opening bracket  *)
(* on, so 【完本】剑来（全） becomes 未知.                                  *)
C17_OnlyFinalGroupRemoved ==
    (pc = "title" /\ Len(res) >= 1) =>
        With(_clean_value(arg), LAMBDA v :
        With(IF EndsInGroup(v) THEN BeforeFinalGroup(v) ELSE v, LAMBDA kept :
            res[1] = IF kept = <<>> THEN UNKNOWN_TITLE ELSE kept))

(* C18 as stated: clean_value, clean_title and clean_author are            *)
(* idempotent, f(f(x)) = f(x).  The code violates it: clean_author removes *)
(* one 作者: label per call, so 作者:作者:剑来 gives 作者:剑来 and then    *)
(* 剑来.                                                                   *)
C18_CleanersIdempotent ==
    (pc \in {"value", "title", "author"} /\ Len(res) = 2) => res[2] = res[1]

-----------------------------------------------------------------------------
\* the six sources of a run in the order of the merge (lines 381-400); the
\* English tokens as they are appended, normalized
Sources(r) ==
    <<r.title_tags, r.adult_tags, r.genre_tags, r.name_tags, r.keyword_tags,
      r.en_tags>>

\* the sources that produced t
ProducedBy(r, t) == {k \in 1..6 : InSeq(t, Sources(r)[k])}

\* the highest-priority source that produced t and the place of t in that
\* source's ranking; <<0, 0>> if no source produced it
Origin(srcs, t) ==
    With({k \in 1..6 : InSeq(t, srcs[k])}, LAMBDA by :
        IF by = {} THEN <<0, 0>>
        ELSE With(SetMin(by), LAMBDA k :
                 <<k, SetMin({p \in 1..Len(srcs[k]) : srcs[k][p] = t})>>))

\* the origins of the returned tags, in the order of the list
Origins(r) ==
    With(Sources(r), LAMBDA srcs :
        [k \in 1..Len(r.tags) |-> Origin(srcs, r.tags[k])])

(* C19: the list returned by generate_tags respects the priority title >   *)
(* maturity > genre > name > keyword > English: every returned tag is      *)
(* produced by a source; attributing it to the highest-priority source     *)
(* that produced it, no tag of a lower-priority source stands before a tag *)
(* of a higher-priority source, and the tags of one source keep that       *)
(* source's ranking order.                                                 *)
C19_SourcePriorityOrder ==
    \A i \in 1..Len(runs) :
        With(Origins(runs[i]), LAMBDA o :
            /\ \A k \in 1..Len(o) : o[k][1] # 0
            /\ \A a, b \in 1..Len(o) :
                   a < b =>
                       \/ o[a][1] < o[b][1]
                       \/ (o[a][1] = o[b][1] /\ o[a][2] < o[b][2]))

\* a result that holds tags of three sources, the English fallback among
\* them, two tags of one source, and a tag that two sources produced
C19_Witness ==
    \E i \in 1..Len(runs) :
        With(Origins(runs[i]), LAMBDA o :
            /\ Cardinality({o[k][1] : k \in 1..Len(o)}) >= 3
            /\ \E k \in 1..Len(o) : o[k][1] = 6
            /\ \E a, b \in 1..Len(o) : a # b /\ o[a][1] = o[b][1]
            /\ \E k \in 1..Len(o) :
                   Cardinality(ProducedBy(runs[i], runs[i].tags[k])) >= 2)

\* the duplicate-free concatenation of the six sources, first occurrence kept
AllSources(r) ==
    Dedupe(SelectSeq(r.title_tags \o r.adult_tags \o r.genre_tags \o r.name_tags
                         \o r.keyword_tags \o r.en_tags,
                     LAMBDA t : t # <<>>))

(* C20 as stated: the result of generate_tags equals the first limit       *)
(* elements of the duplicate-free concatenation (first occurrence kept) of *)
(* title tags, maturity tags, genre tags, name tags, ranked keyword        *)
(* candidates and English fallback tokens; with at least limit distinct    *)
(* tags in it the result has exactly limit tags.  The code violates it:    *)
(* the first four sources are appended without a duplicate check, and the  *)
(* keyword and English loops stop at the length of the list with its       *)
(* duplicates, which the final pass then removes.                          *)
C20_FirstLimitOfDistinctSources ==
    \A i \in 1..Len(runs) :
        runs[i].tags = Take(AllSources(runs[i]), limit)

-----------------------------------------------------------------------------
\* distinct and total of a rule over s, from the glossary: the number of the
\* rule's keywords that occur in s, and the sum of their occurrence counts
RuleDistinct(s, rule) ==
    Cardinality({k \in 1..Len(rule.keys) : Contains(s, rule.keys[k])})

RuleTotal(s, rule) ==
    SumSeq([k \in 1..Len(rule.keys) |-> CountOcc(s, rule.keys[k])])

\* the rules of a table that meet the threshold over s
Firing(s, rules, min_distinct) ==
    {k \in 1..Len(rules) :
        RuleDistinct(s, rules[k]) >= min_distinct \/ RuleTotal(s, rules[k]) >= 6}

FiringLabels(s, rules, min_distinct) ==
    {rules[k].tag : k \in Firing(s, rules, min_distinct)}

(* C21: a genre label is a genre tag only if its rule has distinct >= 3 or *)
(* total >= 6 in the sampled text, and a maturity label is a maturity tag  *)
(* only if its rule has distinct >= 2 or total >= 6; a rule below its      *)
(* threshold never contributes its label.                                  *)
C21_TagsOnlyFromFiringRules ==
    \A i \in 1..Len(runs) :
        /\ SeqRange(runs[i].genre_tags) \subseteq FiringLabels(runs[i].src, GENRE_RULES, 3)
        /\ SeqRange(runs[i].adult_tags) \subseteq FiringLabels(runs[i].src, ADULT_RULES, 2)

\* a genre rule and a maturity rule with keywords in the text but below the
\* thresholds, next to a genre tag of a rule that fires
C21_Witness ==
    \E i \in 1..Len(runs) :
        /\ \E k \in 1..Len(GENRE_RULES) :
               /\ RuleDistinct(runs[i].src, GENRE_RULES[k]) = 2
               /\ RuleTotal(runs[i].src, GENRE_RULES[k]) = 2
               /\ ~InSeq(GENRE_RULES[k].tag, runs[i].genre_tags)
        /\ \E k \in 1..Len(ADULT_RULES) :
               /\ RuleDistinct(runs[i].src, ADULT_RULES[k]) = 1
               /\ ~InSeq(ADULT_RULES[k].tag, runs[i].adult_tags)
        /\ runs[i].genre_tags # <<>>

\* the score of rule k of a table over s
RuleScore(s, rule, weight) ==
    RuleDistinct(s, rule) * weight + IntMin(RuleTotal(s, rule), 10)

\* tags are labels of firing rules, at most cap of them and as many as fire
\* up to cap, in descending score order, and no firing rule left out scores
\* strictly higher than a kept one
TopScored(s, tags, rules, min_distinct, weight, cap) ==
    With([k \in 1..Len(rules) |-> RuleScore(s, rules[k], weight)], LAMBDA score :
    With(Firing(s, rules, min_distinct), LAMBDA firing :
    With([j \in 1..Len(tags) |->
             CHOOSE k \in 1..Len(rules) : rules[k].tag = tags[j]], LAMBDA kept :
        /\ Len(tags) = IntMin(cap, Cardinality(firing))
        /\ \A j \in 1..Len(tags) : kept[j] \in firing
        /\ \A a, b \in 1..Len(tags) : a < b => score[kept[a]] >= score[kept[b]]
        /\ \A k \in firing :
               k \notin SeqRange(kept) =>
                   \A j \in 1..Len(tags) : score[k] <= score[kept[j]])))

(* C22: among the rules that meet their threshold, the genre tags are the  *)
(* at most 2 labels with the highest score distinct * 3 + min(total, 10)   *)
(* and the maturity tags the at most 4 labels with the highest score       *)
(* distinct * 4 + min(total, 10), in descending score order; no firing     *)
(* rule left out scores strictly higher than a kept one, and the           *)
(* occurrences of a keyword add at most 10 to a score.                     *)
C22_HighestScoresKept ==
    \A i \in 1..Len(runs) :
        /\ SeqRange(runs[i].genre_tags) \subseteq {GENRE_RULES[k].tag : k \in 1..Len(GENRE_RULES)}
        /\ SeqRange(runs[i].adult_tags) \subseteq {ADULT_RULES[k].tag : k \in 1..Len(ADULT_RULES)}
        /\ TopScored(runs[i].src, runs[i].genre_tags, GENRE_RULES, 3, 3, 2)
        /\ TopScored(runs[i].src, runs[i].adult_tags, ADULT_RULES, 2, 4, 4)

\* three genre rules fire and the lowest score is left out; 魔法, written 12
\* times, scores 3 + 10 and stands behind 仙侠 with 3 keywords and 5
\* occurrences (9 + 5)
C22_Witness ==
    \E i \in 1..Len(runs) :
        /\ Cardinality(Firing(runs[i].src, GENRE_RULES, 3)) = 3
        /\ Len(runs[i].genre_tags) = 2
        /\ \E k \in 1..Len(GENRE_RULES) :
               /\ RuleDistinct(runs[i].src, GENRE_RULES[k]) = 1
               /\ RuleTotal(runs[i].src, GENRE_RULES[k]) = 12
               /\ runs[i].genre_tags[2] = GENRE_RULES[k].tag
        /\ runs[i].genre_tags[1] = XIANXIA

-----------------------------------------------------------------------------
\* the counter item of token t
Counted(t) == name_counter[CHOOSE k \in 1..Len(name_counter) : name_counter[k].tok = t]

\* candidate a ranks strictly before candidate b in the order of the pair
\* (bucket_count, occurrence_count), descending
RanksBefore(a, b) ==
    \/ Cardinality(a.mask) > Cardinality(b.mask)
    \/ (Cardinality(a.mask) = Cardinality(b.mask) /\ a.c > b.c)

(* C23 as stated: the name tags are the top 8 candidates in the descending *)
(* lexicographic order of (bucket_count, occurrence_count): a candidate in *)
(* more buckets ranks before one in fewer buckets for all occurrence       *)
(* counts, counts of 100000 or more included.  The code violates it: the   *)
(* score is bucket_count * 100000 + occurrence_count, and a token counted  *)
(* 100007 times in 2 buckets (score 300007) ranks before a token counted 6 *)
(* times in 3 buckets (score 300006).                                      *)
C23_BucketsBeforeOccurrences ==
    \A i \in 1..Len(runs) :
        With(runs[i].name_tags, LAMBDA tags :
            /\ \A a, b \in 1..Len(tags) :
                   a < b => ~RanksBefore(Counted(tags[b]), Counted(tags[a]))
            /\ \A k \in 1..Len(name_counter) :
                   ~InSeq(name_counter[k].tok, tags) =>
                       \A a \in 1..Len(tags) :
                           ~RanksBefore(name_counter[k], Counted(tags[a])))

-----------------------------------------------------------------------------
\* the places where t stands in s as a CJK run in the glossary's sense:
\* preceded and followed by a non-CJK character or a boundary of s
MaximalRunsOf(s, t) ==
    {i \in 1..(Len(s) - Len(t) + 1) :
        /\ SubSeq(s, i, i + Len(t) - 1) = t
        /\ (i = 1 \/ ~IsCJK(s[i - 1]))
        /\ (i + Len(t) > Len(s) \/ ~IsCJK(s[i + Len(t)]))}

\* the occurrences counted for a name candidate (score = buckets * 100000 +
\* occurrences, with fewer than 100000 occurrences in the texts drawn)
CountedOccurrences(cand) == cand[1] % NAME_BUCKET_WEIGHT

(* C24 as stated: every token the name detector counts is a maximal CJK    *)
(* run of the text of length 2 or 3, so a name candidate is counted as     *)
(* often as it stands in the text as a maximal run, and a 2- or            *)
(* 3-character piece of a longer run is never counted.  The code violates  *)
(* it: the pattern [CJK]{1,4} cuts a longer run into pieces of four        *)
(* characters and a rest, and 林动 at the end of 天地玄黄林动 is counted.   *)
C24_NamesAreMaximalRuns ==
    \A i \in 1..Len(runs) :
        \A k \in 1..Len(runs[i].name_candidates) :
            With(runs[i].name_candidates[k], LAMBDA cand :
                /\ Len(cand[2]) \in {2, 3}
                /\ CountedOccurrences(cand)
                       = Cardinality(MaximalRunsOf(text, cand[2])))

\* the segments that hold token t, and its occurrences in all segments
SegmentPresence(r, t) ==
    Cardinality({k \in 1..Len(r.seg_tokens) : InSeq(t, r.seg_tokens[k])})

TotalFrequency(r, t) == CountIn(Flatten(r.seg_tokens), t)

\* the keyword candidates as the claim states them
KeptKeywords(r) ==
    {t \in SeqRange(Flatten(r.seg_tokens)) :
        /\ Len(t) >= 2
        /\ Len(t) <= 6
        /\ ~_is_noise_token(t)
        /\ (SegmentPresence(r, t) >= 2 \/ TotalFrequency(r, t) >= 6)
        /\ ~InSeq(t, r.title_tags \o r.adult_tags \o r.genre_tags \o r.name_tags)
        /\ t # Strip(title)}

(* C25 as stated: the keyword candidates are exactly the non-noise CJK     *)
(* tokens of length 2 to 6 from the sampled segments with                  *)
(* segment_presence >= 2 or total_frequency >= 6, minus the tokens claimed *)
(* as title, maturity, genre or name tags and minus a token equal to the   *)
(* title, ordered by segment_presence * 1000 + total_frequency descending; *)
(* a token meeting the keep rule is dropped for no other reason.  The code *)
(* violates it: a token that is a piece of the title is dropped too (天地  *)
(* under the title 天地玄黄).                                               *)
C25_KeywordCandidatesExact ==
    \A i \in 1..Len(runs) :
        With(runs[i], LAMBDA r :
            /\ SeqRange(r.keyword_tags) = KeptKeywords(r)
            /\ \A a, b \in 1..Len(r.keyword_tags) :
                   a < b =>
                       SegmentPresence(r, r.keyword_tags[a]) * 1000
                               + TotalFrequency(r, r.keyword_tags[a])
                           >= SegmentPresence(r, r.keyword_tags[b]) * 1000
                               + TotalFrequency(r, r.keyword_tags[b]))

-----------------------------------------------------------------------------
\* list holds the slices of seglen characters of txt at the offsets offs
SlicesAt(list, txt, seglen, offs) ==
    /\ Len(offs) = Len(list)
    /\ \A k \in 1..Len(list) :
           list[k] = SubSeq(txt, offs[k] + 1, offs[k] + seglen)

(* C26: when len(text) > segment_len > 0 and segments > 1, sample_segments *)
(* returns between 1 and segments slices, each of exactly segment_len      *)
(* characters and a contiguous substring of text, at strictly increasing   *)
(* offsets within [0, len(text) - segment_len]; the first slice is the     *)
(* prefix of text, the last one its suffix, and no offset is used twice.   *)
C26_SlicesFromPrefixToSuffix ==
    (/\ pc = "segments_done"
     /\ Len(text) > segment_len
     /\ segment_len > 0
     /\ segments > 1)
        => /\ Len(out) >= 1
           /\ Len(out) <= segments
           /\ \A k \in 1..Len(out) : Len(out[k]) = segment_len
           /\ \E offs \in [1..Len(out) -> 0..(Len(text) - segment_len)] :
                  /\ SlicesAt(out, text, segment_len, offs)
                  /\ \A a, b \in 1..Len(out) : a < b => offs[a] < offs[b]
                  /\ offs[1] = 0
                  /\ offs[Len(out)] = Len(text) - segment_len

\* three offsets asked for over a text with room for two: the middle offset
\* coincides with the first and two slices are returned, prefix and suffix
C26_Witness ==
    /\ pc = "segments_done"
    /\ Len(text) > segment_len
    /\ segment_len > 0
    /\ segments > 2
    /\ Len(out) = 2
    /\ Len(out) < segments
    /\ out[1] = SubSeq(text, 1, segment_len)
    /\ out[2] = SubSeq(text, Len(text) - segment_len + 1, Len(text))

-----------------------------------------------------------------------------
(* C27 as stated: in generate_tags the two sampling passes agree: for      *)
(* every title and non-empty text the classifier input equals the title    *)
(* line followed by the newline-join of the segments the keyword extractor *)
(* tokenizes, also when the text fits the budget of 200000 characters but  *)
(* is longer than one segment.  The code violates it: a text that fits the *)
(* budget is handed to the classifiers whole, while the extractor reads up *)
(* to five overlapping segments of it.                                     *)
C27_SamplingPassesAgree ==
    (pc = "passes_done" /\ text # <<>>)
        => out.src = (IF out.title # <<>>
                      THEN out.title \o <<NL>> \o JoinNL(out.segments)
                      ELSE JoinNL(out.segments))

-----------------------------------------------------------------------------
(* The non-empty lines of a text: the indices, among all its lines, of the *)
(* lines that keep a character when stripped.                              *)
NonEmptyLineIndices(lines) ==
    SelectSeq(Indices(Len(lines)), LAMBDA k : Strip(lines[k]) # <<>>)

\* the fields that the lines at the positions js of idx carry
FieldsOfLines(lines, idx, js) ==
    front_matter_fields([j \in 1..Len(js) |-> Strip(lines[idx[js[j]]])])

(* C28 as stated: the front-matter extractor examines the first 400        *)
(* non-empty lines of the text: a field line among them is taken into      *)
(* account however many blank lines precede it, and a field line after the *)
(* 400th non-empty line contributes nothing.  The code violates the first  *)
(* half: a field line behind 1200 blank lines is not read.                 *)
C28_FirstNonEmptyLinesExamined ==
    pc = "scanned" =>
        With(SplitLines(text), LAMBDA lines :
        With(NonEmptyLineIndices(lines), LAMBDA idx :
        out = FieldsOfLines(lines, idx,
                            SelectSeq(Indices(Len(idx)),
                                      LAMBDA j : j <= FRONT_LINES))))

(* C28 amended: the extractor examines the non-empty lines among the first *)
(* 1200 lines of the text, blank lines counted, and of these the first     *)
(* 400: a line contributes a title, author, tag or description exactly     *)
(* when it is one of the first 1200 lines and one of the first 400         *)
(* non-empty lines.                                                        *)
C28_NonEmptyOfFirstLinesExamined ==
    pc = "scanned" =>
        With(SplitLines(text), LAMBDA lines :
        With(NonEmptyLineIndices(lines), LAMBDA idx :
        out = FieldsOfLines(lines, idx,
                            SelectSeq(Indices(Len(idx)),
                                      LAMBDA j : j <= FRONT_LINES
                                                 /\ idx[j] <= SCAN_LINES))))

\* a title line behind 1199 blank lines, the 1200th line, has been read; the
\* author line after it, the 1201st line, has not
C28_Witness ==
    /\ pc = "scanned"
    /\ text = Repeat(<<NL>>, SCAN_LINES - 1) \o S_TITLE \o S_AUTHOR
    /\ out.title # <<>>
    /\ out.author = <<>>

-----------------------------------------------------------------------------
(* The text has exactly one scanned line that carries one of the keys, and *)
(* the value of this line is empty once cleaned.                           *)
OnlyEmptyField(txt, keys) ==
    With(front_matter_lines(txt), LAMBDA lines :
    With([k \in 1..Len(lines) |-> _RE_FIELD_match(lines[k])], LAMBDA m :
    With({k \in 1..Len(lines) : m[k].ok /\ m[k].k \in keys}, LAMBDA carrying :
        /\ Cardinality(carrying) = 1
        /\ \A k \in carrying : _clean_value(m[k].v) = <<>>)))

(* C29 as stated: a front-matter field without a value leaves the baseline *)
(* of the file name unchanged: when the only title line (author line) of   *)
(* the text has an empty value, extract_upload_metadata returns the title  *)
(* (author) that parse_title_author_from_filename derives from the file    *)
(* name.  The code violates it: the empty value is cleaned to the default  *)
(* title or author, which then replaces the one of the file name.          *)
C29_EmptyFieldKeepsBaseline ==
    \A i \in 1..Len(metas) :
        With(metas[i], LAMBDA r :
            r.read =>
                /\ OnlyEmptyField(r.text, TITLE_KEYS) => r.title = r.name.title
                /\ OnlyEmptyField(r.text, AUTHOR_KEYS) => r.author = r.name.author)

-----------------------------------------------------------------------------
(* The hashes of the uploads received, the runs that have committed a new  *)
(* Book, and the rewards of the runs that have committed one for a user.   *)
Hashes == {sessions[r].document.sha256 : r \in 1..Len(sessions)}

Rewarded(file_hash) ==
    {r \in 1..Len(sessions) :
        /\ sessions[r].pc = "done"
        /\ sessions[r].new_book
        /\ sessions[r].document.sha256 = file_hash}

RewardsOf(u) ==
    SumSeq([r \in 1..Len(sessions) |->
               IF sessions[r].pc = "done" /\ sessions[r].new_book
                  /\ sessions[r].user = u
               THEN sessions[r].reward_coins ELSE 0])

\* at most one ACTIVE Book per hash, created by at most one run, and no
\* user holds more coins or uploads than the books of that user have earned
OneBookOneReward ==
    /\ \A h \in Hashes :
           /\ Len(active_books(database, h)) <= 1
           /\ Cardinality(Rewarded(h)) <= 1
    /\ \A u \in UserIds :
           /\ database.users[u].upload_count
                  <= Len(SelectSeq(database.books, LAMBDA b : b.uploader_id = u))
           /\ database.users[u].coins <= RewardsOf(u)

\* a run that has found an ACTIVE Book awards nothing and adds no Book, and
\* its commit leaves the books and the coins and uploads of every user as
\* they are
DuplicateChangesNothing ==
    \A r \in 1..Len(sessions) :
        sessions[r].existing_book =>
            /\ sessions[r].reward_coins = 0
            /\ ~sessions[r].new_book
            /\ (sessions[r].pc = "commit" /\ sessions'[r].pc = "done") =>
                   /\ database'.books = database.books
                   /\ \A u \in UserIds :
                          /\ database'.users[u].coins = database.users[u].coins
                          /\ database'.users[u].upload_count
                                 = database.users[u].upload_count

(* C30: for any sequence and any interleaving of handle_document runs on   *)
(* files with the same SHA-256 hash, at most one ACTIVE Book is created    *)
(* for the hash and the upload coins and upload_count are credited for it  *)
(* at most once; a run that finds an ACTIVE Book for the hash awards 0     *)
(* coins, creates no Book and leaves the uploader's coins and upload_count *)
(* unchanged.                                                              *)
C30_OneBookOneRewardPerHash ==
    []OneBookOneReward /\ [][DuplicateChangesNothing]_vars

\* two runs on the same hash have raced: both found no File and no Book,
\* one has committed its Book and its reward, the other has failed on the
\* primary key of files; a third run has found the Book and is done
C30_Witness ==
    \E a, b, c \in 1..Len(sessions) :
        /\ sessions[a].document.sha256 = sessions[b].document.sha256
        /\ sessions[a].document.sha256 = sessions[c].document.sha256
        /\ sessions[a].pc = "done" /\ sessions[a].new_book
        /\ database.users[sessions[a].user].coins = sessions[a].reward_coins
        /\ sessions[b].pc = "failed" /\ sessions[b].new_book
        /\ sessions[b].error = "IntegrityError"
        /\ sessions[c].pc = "done" /\ sessions[c].existing_book
        /\ Len(active_books(database, sessions[a].document.sha256)) = 1

====
